---------------------------- MODULE Spec2Model ----------------------------
(***************************************************************************)
(* Streaming response decoder of ZaiChatModelProvider (src/src/types.ts,   *)
(* the provider that starts at line 1023) together with the helpers of     *)
(* utils.ts it calls.                                                      *)
(*                                                                         *)
(* Text is modelled by TLA+ strings, one character per UTF-16 code unit of *)
(* the JavaScript string; positions are 0-based as in JavaScript.          *)
(***************************************************************************)
EXTENDS Integers, Sequences, FiniteSets, TLC

(***************************************************************************)
(* JavaScript string primitives.                                           *)
(***************************************************************************)

\* s.slice(a, b) for 0 <= a, b
Slice(s, a, b) ==
  IF a >= b \/ a >= Len(s) THEN ""
  ELSE SubSeq(s, a + 1, IF b > Len(s) THEN Len(s) ELSE b)

\* s.slice(a)
SliceFrom(s, a) == Slice(s, a, Len(s))

\* s[i], "" when out of range
CharAt(s, i) == Slice(s, i, i + 1)

\* s.startsWith(t, i)
StartsWithAt(s, t, i) == Slice(s, i, i + Len(t)) = t

StartsWith(s, t) == StartsWithAt(s, t, 0)

EndsWith(s, t) == Len(t) <= Len(s) /\ Slice(s, Len(s) - Len(t), Len(s)) = t

\* the least element of a non-empty set of integers
MinOf(S) == CHOOSE m \in S : \A n \in S : m <= n

\* F applied to the value of an expression that is computed once: a local
\* constant of the code
With(v, F(_)) == F(v)

\* s.indexOf(t, i): the first position >= i where t occurs, -1 when none
IndexOfFrom(s, t, i) ==
  LET hits == {j \in i..(Len(s) - Len(t)) : StartsWithAt(s, t, j)} IN
  IF hits = {} THEN -1 ELSE MinOf(hits)

IndexOf(s, t) == IndexOfFrom(s, t, 0)

\* the characters String.prototype.trim removes (those that occur in the model)
WhiteSpace == {" ", "\t", "\n", "\r"}

RECURSIVE RunOf(_, _, _)
\* the end of the longest run of characters of class cls that starts at i
RunOf(s, i, cls) ==
  IF i >= Len(s) \/ CharAt(s, i) \notin cls THEN i
  ELSE RunOf(s, i + 1, cls)

RECURSIVE RunBack(_, _, _)
\* the start of the longest run of characters of class cls that ends before j
RunBack(s, j, cls) ==
  IF j <= 0 \/ CharAt(s, j - 1) \notin cls THEN j
  ELSE RunBack(s, j - 1, cls)

\* s.trim()
Trim(s) == Slice(s, RunOf(s, 0, WhiteSpace), RunBack(s, Len(s), WhiteSpace))

RECURSIVE SplitOn(_, _)
\* s.split(sep) for a non-empty separator: always at least one piece
SplitOn(s, sep) ==
  LET i == IndexOf(s, sep) IN
  IF i = -1 THEN <<s>>
  ELSE <<Slice(s, 0, i)>> \o SplitOn(SliceFrom(s, i + Len(sep)), sep)

\* s.split(/\r?\n/)
SplitLines(s) ==
  LET raw == SplitOn(s, "\n") IN
  [k \in 1..Len(raw) |->
     IF k < Len(raw) /\ EndsWith(raw[k], "\r")
     THEN Slice(raw[k], 0, Len(raw[k]) - 1)
     ELSE raw[k]]

Digits == {"0", "1", "2", "3", "4", "5", "6", "7", "8", "9"}

DigitValue(c) ==
  CASE c = "0" -> 0 [] c = "1" -> 1 [] c = "2" -> 2 [] c = "3" -> 3
    [] c = "4" -> 4 [] c = "5" -> 5 [] c = "6" -> 6 [] c = "7" -> 7
    [] c = "8" -> 8 [] OTHER -> 9

RECURSIVE DecimalValue(_, _)
\* Number(s) for a string of decimal digits
DecimalValue(s, acc) ==
  IF s = "" THEN acc
  ELSE DecimalValue(SliceFrom(s, 1), 10 * acc + DigitValue(CharAt(s, 0)))


(***************************************************************************)
(* JSON values, JSON.parse and JSON.stringify.                             *)
(*                                                                         *)
(* A value is a tagged record.  An object keeps its members in insertion   *)
(* order, as JavaScript does for keys that are not array indices.  A       *)
(* number keeps its literal, which is what JSON.stringify prints for the   *)
(* integer literals the model uses.  The escapes \b, \f and \uXXXX are not *)
(* decoded (no input of the model uses them).                              *)
(***************************************************************************)
JUndefined == [t |-> "undefined"]
JNull == [t |-> "null"]
JBool(b) == [t |-> "bool", b |-> b]
JNum(lit) == [t |-> "num", lit |-> lit]
JStr(s) == [t |-> "str", s |-> s]
JArr(items) == [t |-> "arr", items |-> items]
JObj(keys, vals) == [t |-> "obj", keys |-> keys, vals |-> vals]

ParseFail == [ok |-> FALSE, pos |-> 0, val |-> JUndefined]
ParseOk(v, p) == [ok |-> TRUE, pos |-> p, val |-> v]

JsonSpace == {" ", "\t", "\n", "\r"}

SkipWs(s, i) == RunOf(s, i, JsonSpace)

\* the position of key k in keys, 0 when absent
KeyPos(keys, k) ==
  IF \E n \in 1..Len(keys) : keys[n] = k
  THEN CHOOSE n \in 1..Len(keys) : keys[n] = k
  ELSE 0

\* obj[k] = v : a repeated key keeps its first position and takes the new value
PutMember(o, k, v) ==
  LET n == KeyPos(o.keys, k) IN
  IF n = 0 THEN JObj(Append(o.keys, k), Append(o.vals, v))
  ELSE JObj(o.keys, [o.vals EXCEPT ![n] = v])

Unescape(e) ==
  CASE e = "\"" -> "\"" [] e = "\\" -> "\\" [] e = "/" -> "/"
    [] e = "n" -> "\n" [] e = "r" -> "\r" [] e = "t" -> "\t"
    [] OTHER -> ""

RECURSIVE BackslashesBefore(_, _, _)
\* the number of consecutive backslashes that end right before position j
BackslashesBefore(s, i, j) ==
  IF j > i /\ CharAt(s, j - 1) = "\\" THEN 1 + BackslashesBefore(s, i, j - 1)
  ELSE 0

\* the first quote at or after j that an even number of backslashes precede
\* (the literal starts at i), Len(s) when there is none
ClosingQuote(s, i, j) ==
  With({q \in j..(Len(s) - 1) :
          CharAt(s, q) = "\"" /\ BackslashesBefore(s, i, q) % 2 = 0},
       LAMBDA quotes : IF quotes = {} THEN Len(s) ELSE MinOf(quotes))

\* the positions of body where an escape starts: the backslashes that an
\* even number of backslashes precede
EscapeStarts(body) ==
  {p \in 0..(Len(body) - 1) :
     CharAt(body, p) = "\\" /\ BackslashesBefore(body, 0, p) % 2 = 0}

RECURSIVE UnescapeRange(_, _, _, _)
\* the text of the characters lo..hi-1 of a literal body whose escapes start
\* at the positions E, halving the range to keep the recursion shallow
UnescapeRange(body, E, lo, hi) ==
  IF lo >= hi THEN ""
  ELSE IF ~\E p \in E : lo - 1 <= p /\ p < hi THEN Slice(body, lo, hi)
  ELSE IF hi = lo + 1
  THEN IF lo \in E THEN Unescape(CharAt(body, lo + 1)) ELSE ""
  ELSE UnescapeRange(body, E, lo, (lo + hi) \div 2)
       \o UnescapeRange(body, E, (lo + hi) \div 2, hi)

\* the text of a string literal body; not ok at an escape that is not one
UnescapeBody(body) ==
  With(EscapeStarts(body), LAMBDA E :
    IF \E p \in E : Unescape(CharAt(body, p + 1)) = ""
    THEN [ok |-> FALSE, s |-> ""]
    ELSE [ok |-> TRUE, s |-> UnescapeRange(body, E, 0, Len(body))])

\* a control character that a string literal may not hold
HasControl(body) ==
  \E k \in 0..(Len(body) - 1) : CharAt(body, k) \in {"\n", "\r", "\t"}

\* the value of a string literal that ends at the quote at j, text its
\* unescaped body
StringText(acc, j, text) ==
  IF ~text.ok THEN ParseFail ELSE ParseOk(JStr(acc \o text.s), j + 1)

\* a string literal from i to its closing quote at j
StringLiteral(s, i, acc, j) ==
  IF j >= Len(s) \/ HasControl(Slice(s, i, j)) THEN ParseFail
  ELSE StringText(acc, j, UnescapeBody(Slice(s, i, j)))

\* a string literal whose first character after the opening quote is at i:
\* it ends at the first quote that an even number of backslashes precede
ParseStringBody(s, i, acc) == StringLiteral(s, i, acc, ClosingQuote(s, i, i))

\* -?(0|[1-9][0-9]*)(\.[0-9]+)?([eE][+-]?[0-9]+)?
ParseNumber(s, i) ==
  With(IF CharAt(s, i) = "-" THEN i + 1 ELSE i, LAMBDA a :
  With(RunOf(s, a, Digits), LAMBDA b :
  With(IF CharAt(s, b) = "." THEN RunOf(s, b + 1, Digits) ELSE b, LAMBDA c :
  With(IF CharAt(s, c + 1) \in {"+", "-"} THEN c + 2 ELSE c + 1, LAMBDA d0 :
  With(IF CharAt(s, c) \in {"e", "E"} THEN RunOf(s, d0, Digits) ELSE c,
       LAMBDA d :
    IF /\ b > a
       /\ CharAt(s, a) # "0" \/ b = a + 1
       /\ CharAt(s, b) # "." \/ c > b + 1
       /\ CharAt(s, c) \notin {"e", "E"} \/ d > d0
    THEN ParseOk(JNum(Slice(s, i, d)), d)
    ELSE ParseFail)))))

RECURSIVE ParseValue(_, _)
RECURSIVE ParseMembers(_, _, _)
RECURSIVE ParseElements(_, _, _)

\* what follows a member k : v of an object, e at the first character after
\* the value (after ws)
AfterMember(s, e, o2) ==
  IF CharAt(s, e) = "}" THEN ParseOk(o2, e + 1)
  ELSE IF CharAt(s, e) = "," THEN ParseMembers(s, SkipWs(s, e + 1), o2)
  ELSE ParseFail

\* a member whose key is k and whose value was parsed as v
MemberValue(s, o, k, v) ==
  IF ~v.ok THEN ParseFail
  ELSE AfterMember(s, SkipWs(s, v.pos), PutMember(o, k.val.s, v.val))

\* a member whose key was parsed as k: a colon and a value follow
MemberKey(s, o, k) ==
  IF ~k.ok THEN ParseFail
  ELSE IF CharAt(s, SkipWs(s, k.pos)) # ":" THEN ParseFail
  ELSE MemberValue(s, o, k, ParseValue(s, SkipWs(s, k.pos) + 1))

\* the members of an object, i at the first character of a key (after ws)
ParseMembers(s, i, o) ==
  IF CharAt(s, i) # "\"" THEN ParseFail
  ELSE MemberKey(s, o, ParseStringBody(s, i + 1, ""))

\* what follows an element of an array, e at the first character after it
AfterElement(s, e, items2) ==
  IF CharAt(s, e) = "]" THEN ParseOk(JArr(items2), e + 1)
  ELSE IF CharAt(s, e) = "," THEN ParseElements(s, e + 1, items2)
  ELSE ParseFail

\* an element that was parsed as v
ElementValue(s, items, v) ==
  IF ~v.ok THEN ParseFail
  ELSE AfterElement(s, SkipWs(s, v.pos), Append(items, v.val))

\* the elements of an array, i at or before the first character of one
ParseElements(s, i, items) == ElementValue(s, items, ParseValue(s, i))

\* the value whose first character c is at a; m is the position of the
\* first character after an opening bracket and the white space after it
ParseValueAt(s, a, c, m) ==
  CASE c = "{" -> IF CharAt(s, m) = "}" THEN ParseOk(JObj(<<>>, <<>>), m + 1)
                  ELSE ParseMembers(s, m, JObj(<<>>, <<>>))
    [] c = "[" -> IF CharAt(s, m) = "]" THEN ParseOk(JArr(<<>>), m + 1)
                  ELSE ParseElements(s, m, <<>>)
    [] c = "\"" -> ParseStringBody(s, a + 1, "")
    [] c = "-" \/ c \in Digits -> ParseNumber(s, a)
    [] c = "t" /\ StartsWithAt(s, "true", a) -> ParseOk(JBool(TRUE), a + 4)
    [] c = "f" /\ StartsWithAt(s, "false", a) -> ParseOk(JBool(FALSE), a + 5)
    [] c = "n" /\ StartsWithAt(s, "null", a) -> ParseOk(JNull, a + 4)
    [] OTHER -> ParseFail

\* one JSON value starting at or after position i
ParseValue(s, i) ==
  ParseValueAt(s, SkipWs(s, i), CharAt(s, SkipWs(s, i)),
               SkipWs(s, SkipWs(s, i) + 1))

\* JSON.parse(text): ok is FALSE where JSON.parse throws
JsonParse(text) ==
  With(ParseValue(text, 0), LAMBDA r :
    IF r.ok /\ SkipWs(text, r.pos) = Len(text) THEN r ELSE ParseFail)

EscapeOf(c) ==
  CASE c = "\"" -> "\\\"" [] c = "\\" -> "\\\\"
    [] c = "\n" -> "\\n" [] c = "\r" -> "\\r"
    [] c = "\t" -> "\\t" [] OTHER -> c

RECURSIVE EscapeRange(_, _, _)
\* the characters lo..hi-1 of s as JSON.stringify writes them, halving the
\* range to keep the recursion shallow
EscapeRange(s, lo, hi) ==
  IF lo >= hi THEN ""
  ELSE IF ~\E j \in lo..(hi - 1) :
             CharAt(s, j) \in {"\"", "\\", "\n", "\r", "\t"}
  THEN Slice(s, lo, hi)
  ELSE IF hi = lo + 1 THEN EscapeOf(CharAt(s, lo))
  ELSE EscapeRange(s, lo, (lo + hi) \div 2)
       \o EscapeRange(s, (lo + hi) \div 2, hi)

\* the body of the string literal JSON.stringify writes for s
EscapeString(s) == EscapeRange(s, 0, Len(s))

RECURSIVE JsonStringify(_)
RECURSIVE StringifyMembers(_, _)
RECURSIVE StringifyItems(_, _, _)

StringifyMembers(o, n) ==
  IF n > Len(o.keys) THEN ""
  ELSE (IF n > 1 THEN "," ELSE "")
       \o "\"" \o EscapeString(o.keys[n]) \o "\":" \o JsonStringify(o.vals[n])
       \o StringifyMembers(o, n + 1)

\* the JSON texts of the items lo..hi with commas between them, halving the
\* range to keep the recursion shallow for long arrays
StringifyItems(items, lo, hi) ==
  IF lo > hi THEN ""
  ELSE IF lo = hi THEN JsonStringify(items[lo])
  ELSE StringifyItems(items, lo, (lo + hi) \div 2) \o ","
       \o StringifyItems(items, (lo + hi) \div 2 + 1, hi)

\* JSON.stringify(v)
JsonStringify(v) ==
  CASE v.t = "obj" -> "{" \o StringifyMembers(v, 1) \o "}"
    [] v.t = "arr" -> "[" \o StringifyItems(v.items, 1, Len(v.items)) \o "]"
    [] v.t = "str" -> "\"" \o EscapeString(v.s) \o "\""
    [] v.t = "num" -> v.lit
    [] v.t = "bool" -> (IF v.b THEN "true" ELSE "false")
    [] OTHER -> "null"

\* v[k] for an object v, undefined otherwise
Get(v, k) ==
  IF v.t = "obj" /\ KeyPos(v.keys, k) # 0 THEN v.vals[KeyPos(v.keys, k)]
  ELSE JUndefined

IsString(v) == v.t = "str"

\* typeof v === "object" && v !== null && !Array.isArray(v)
IsPlainObject(v) == v.t = "obj"

\* the truthiness of a value
Truthy(v) ==
  CASE v.t \in {"undefined", "null"} -> FALSE
    [] v.t = "bool" -> v.b
    [] v.t = "str" -> v.s # ""
    [] v.t = "num" -> v.lit \notin {"0", "-0"}
    [] OTHER -> TRUE

\* String(v) for the values a delta field carries
ToJsString(v) ==
  CASE v.t = "str" -> v.s
    [] v.t = "num" -> v.lit
    [] v.t = "bool" -> (IF v.b THEN "true" ELSE "false")
    [] OTHER -> "[object Object]"

(***************************************************************************)
(* utils.ts                                                                *)
(***************************************************************************)

\* tryParseJSONObject: ok with the parsed value, or not ok
tryParseJSONObject(text) ==
  IF text = "" \/ Trim(text) = "" THEN ParseFail ELSE JsonParse(text)

(***************************************************************************)
(* ZaiChatModelProvider: the parser state of one provider instance is a    *)
(* record with the fields of the class, plus progress, the parts reported  *)
(* to the sink of the current request.                                     *)
(***************************************************************************)
TextPart(v) == [kind |-> "text", value |-> v]

ToolCallPart(id, name, input) ==
  [kind |-> "toolCall", callId |-> id, name |-> name, input |-> input]

\* Math.random().toString(36).slice(2, 10): the random suffix of a generated
\* call id is not modelled, every generated id of a kind reads the same
RandomSuffix == "????????"

\* _textToolActive = undefined
NoActive == [active |-> FALSE]

ActiveCall(name, index, argBuffer, emitted) ==
  [active |-> TRUE, name |-> name, index |-> index,
   argBuffer |-> argBuffer, emitted |-> emitted]

\* the field initialisers of the class (lines 1024-1060)
FreshState ==
  [toolCallBuffers |-> <<>>,
   completedToolCallIndices |-> {},
   hasEmittedAssistantText |-> FALSE,
   emittedBeginToolCallsHint |-> FALSE,
   textToolParserBuffer |-> "",
   textToolActive |-> NoActive,
   emittedTextToolCallKeys |-> {},
   emittedTextToolCallIds |-> {},
   hasEmittedThinkingContent |-> FALSE,
   reasoningContentBuffer |-> "",
   progress |-> <<>>]

\* progress.report(part)
report(st, part) == [st EXCEPT !.progress = Append(@, part)]

\* stands for the one character U+1F9E0 of the headers
Brain == "{U+1F9E0}"

ThinkingHeader(isComplete) ==
  IF isComplete THEN "> **" \o Brain \o " Thinking Process**"
  ELSE "> *" \o Brain \o " Thinking...*"

RECURSIVE ReplaceAll(_, _, _)
\* s.replace(/from/g, to) for a literal from
ReplaceAll(s, from, to) ==
  LET i == IndexOf(s, from) IN
  IF i = -1 THEN s
  ELSE Slice(s, 0, i) \o to \o ReplaceAll(SliceFrom(s, i + Len(from)), from, to)

RECURSIVE QuoteLines(_, _)
\* lines.map(line => "> " + line).join("\n")
QuoteLines(lines, n) ==
  IF n > Len(lines) THEN ""
  ELSE (IF n > 1 THEN "\n" ELSE "") \o "> " \o lines[n] \o QuoteLines(lines, n + 1)

\* formatReasoningContent
formatReasoningContent(content, isComplete) ==
  LET normalized == Trim(ReplaceAll(content, "\r\n", "\n"))
      quotedLines == QuoteLines(SplitOn(normalized, "\n"), 1)
  IN ThinkingHeader(isComplete) \o "\n>\n" \o quotedLines \o "\n\n---\n\n"

BEGIN == "<|tool_call_begin|>"
ARG_BEGIN == "<|tool_call_argument_begin|>"
END == "<|tool_call_end|>"

Letters ==
  {"a", "b", "c", "d", "e", "f", "g", "h", "i", "j", "k", "l", "m",
   "n", "o", "p", "q", "r", "s", "t", "u", "v", "w", "x", "y", "z",
   "A", "B", "C", "D", "E", "F", "G", "H", "I", "J", "K", "L", "M",
   "N", "O", "P", "Q", "R", "S", "T", "U", "V", "W", "X", "Y", "Z"}

\* [a-zA-Z0-9_-]
SectionNameClass == Letters \cup Digits \cup {"_", "-"}

\* [A-Za-z0-9_\-.]
ToolNameClass == Letters \cup Digits \cup {"_", "-", "."}

SectionTails == {"_section_begin|>", "_section_end|>"}

\* the end of the match of /<\|[a-zA-Z0-9_-]+_section_(?:begin|end)\|>/ that
\* starts at i, -1 when there is none (the name is matched greedily)
SectionMatchEnd(s, i) ==
  LET r == RunOf(s, i + 2, SectionNameClass)
      ends == {c[1] + Len(c[2]) :
                 c \in {d \in ((i + 3)..r) \X SectionTails :
                          StartsWithAt(s, d[2], d[1])}}
  IN IF StartsWithAt(s, "<|", i) /\ ends # {}
     THEN CHOOSE m \in ends : \A n \in ends : n <= m
     ELSE -1

ToolTokens ==
  {"<|tool_call_begin|>", "<|tool_call_end|>",
   "<|tool_call_argument_begin|>", "<|tool_call_argument_end|>"}

\* the end of the match of /<\|tool_call_(?:argument_)?(?:begin|end)\|>/ at i
ToolTokenMatchEnd(s, i) ==
  IF \E tk \in ToolTokens : StartsWithAt(s, tk, i)
  THEN i + Len(CHOOSE tk \in ToolTokens : StartsWithAt(s, tk, i))
  ELSE -1

RECURSIVE StripSections(_, _, _)
\* replace(/<\|...section...\|>/g, ""): leftmost match first, then on from
\* its end
StripSections(s, i, acc) ==
  LET starts == {j \in i..(Len(s) - 1) :
                   CharAt(s, j) = "<" /\ SectionMatchEnd(s, j) # -1}
      p == MinOf(starts)
  IN IF starts = {} THEN acc \o SliceFrom(s, i)
     ELSE StripSections(s, SectionMatchEnd(s, p), acc \o Slice(s, i, p))

RECURSIVE StripToolTokens(_, _, _)
\* replace(/<\|tool_call_...\|>/g, "")
StripToolTokens(s, i, acc) ==
  LET starts == {j \in i..(Len(s) - 1) :
                   CharAt(s, j) = "<" /\ ToolTokenMatchEnd(s, j) # -1}
      p == MinOf(starts)
  IN IF starts = {} THEN acc \o SliceFrom(s, i)
     ELSE StripToolTokens(s, ToolTokenMatchEnd(s, p), acc \o Slice(s, i, p))

\* stripControlTokens: the two replace passes, in the order of the code
stripControlTokens(text) ==
  IF IndexOf(text, "<|") = -1 THEN text
  ELSE StripToolTokens(StripSections(text, 0, ""), 0, "")

\* the report of an inline tool call and the key it leaves (lines 2065-2069)
ReportTextToolCall(st, name, value, key) ==
  [st |-> report([st EXCEPT !.emittedTextToolCallKeys = @ \cup {key}],
                 ToolCallPart("tct_" \o RandomSuffix, name, value)),
   did |-> TRUE]

\* emitTextToolCallIfValid once the argument text parsed (lines 2055-2070)
EmitParsedTextToolCall(st, call, name, value) ==
  With(name \o ":" \o JsonStringify(value), LAMBDA key :
  With(name \o ":" \o ToString(call.index), LAMBDA idKey :
    IF call.index # -1
    THEN IF idKey \in st.emittedTextToolCallIds
         THEN [st |-> st, did |-> FALSE]
         ELSE ReportTextToolCall(
                [st EXCEPT !.emittedTextToolCallIds = @ \cup {idKey}],
                name, value, key)
    ELSE IF key \in st.emittedTextToolCallKeys
      THEN [st |-> st, did |-> FALSE]
    ELSE ReportTextToolCall(st, name, value, key)))

\* emitTextToolCallIfValid: [st, did]
emitTextToolCallIfValid(st, call, argText) ==
  With(tryParseJSONObject(argText), LAMBDA parsed :
    IF ~parsed.ok THEN [st |-> st, did |-> FALSE]
    ELSE EmitParsedTextToolCall(
           st, call,
           IF call.name.t = "undefined" THEN "unknown_tool" ELSE call.name.s,
           parsed.val))

\* a turn end that leaves the active inline call as it is
flushActiveNothing(st) == st

\* flushActiveTextToolCall
flushActiveTextToolCall(st) ==
  IF ~st.textToolActive.active THEN st
  ELSE IF ~tryParseJSONObject(st.textToolActive.argBuffer).ok THEN st
  ELSE [emitTextToolCallIfValid(st, st.textToolActive,
                                st.textToolActive.argBuffer).st
          EXCEPT !.textToolActive = NoActive]

\* obj.function ?? null
JsonLineFn(obj) ==
  IF Get(obj, "function").t \in {"undefined", "null"} THEN JNull
  ELSE Get(obj, "function")

\* the name of a JSON-line call (lines 1972-1977), undefined when none
JsonLineName(obj, fn) ==
  IF IsString(Get(obj, "name")) THEN Get(obj, "name")
  ELSE IF Truthy(fn) /\ IsString(Get(fn, "name")) THEN Get(fn, "name")
  ELSE JUndefined

\* the call id of a JSON-line call (lines 1982-1987), undefined when none
JsonLineCallId(obj) ==
  IF IsString(Get(obj, "callId")) THEN Get(obj, "callId")
  ELSE IF IsString(Get(obj, "id")) THEN Get(obj, "id")
  ELSE JUndefined

\* obj.arguments ?? fn?.arguments
JsonLineArgs(obj, fn) ==
  IF Get(obj, "arguments").t \in {"undefined", "null"}
  THEN Get(fn, "arguments")
  ELSE Get(obj, "arguments")

\* the input taken from the arguments when obj.input is no plain object
\* (lines 1999-2014): [ok, val], not ok where the function returns false
JsonLineArgsInput(argsVal) ==
  IF IsString(argsVal) THEN tryParseJSONObject(argsVal.s)
  ELSE IF IsPlainObject(argsVal) THEN ParseOk(argsVal, 0)
  ELSE ParseOk(JUndefined, 0)

\* the input of a JSON-line call (lines 1989-2014)
JsonLineInput(obj, fn) ==
  IF IsPlainObject(Get(obj, "input")) THEN ParseOk(Get(obj, "input"), 0)
  ELSE JsonLineArgsInput(JsonLineArgs(obj, fn))

\* the dedup and the report of a JSON-line call (lines 2020-2041)
EmitJsonLine(st, name, callId, input) ==
  With(name \o ":" \o JsonStringify(input), LAMBDA key :
    IF key \in st.emittedTextToolCallKeys THEN [st |-> st, ret |-> TRUE]
    ELSE
      [st |-> report(
                [st EXCEPT
                   !.emittedTextToolCallKeys = @ \cup {key},
                   !.emittedTextToolCallIds =
                      IF Truthy(callId) THEN @ \cup {name \o ":" \o callId.s}
                      ELSE @],
                ToolCallPart(IF callId.t = "undefined"
                             THEN "jtc_" \o RandomSuffix ELSE callId.s,
                             name, input)),
       ret |-> TRUE])

\* tryEmitJsonToolCallLine from the parsed object on (lines 1970-2041)
JsonLineCall(st, obj, fn) ==
  With(JsonLineName(obj, fn), LAMBDA name :
    IF ~Truthy(name) THEN [st |-> st, ret |-> FALSE]
    ELSE With(JsonLineInput(obj, fn), LAMBDA input :
      IF ~input.ok \/ ~Truthy(input.val) THEN [st |-> st, ret |-> FALSE]
      ELSE EmitJsonLine(st, name.s, JsonLineCallId(obj), input.val)))

\* a parser that takes no line for a tool call
noJsonToolCallLine(st, line) == [st |-> st, ret |-> FALSE]

\* tryEmitJsonToolCallLine: [st, ret]
tryEmitJsonToolCallLine(st, line) ==
  With(Trim(line), LAMBDA trimmed :
    IF ~StartsWith(trimmed, "{") \/ ~EndsWith(trimmed, "}")
    THEN [st |-> st, ret |-> FALSE]
    ELSE With(tryParseJSONObject(trimmed), LAMBDA parsed :
      IF ~parsed.ok THEN [st |-> st, ret |-> FALSE]
      ELSE JsonLineCall(st, parsed.val, JsonLineFn(parsed.val))))

\* the largest k in 1..min(BEGIN.length - 1, data.length - 1) such that data
\* ends with the first k characters of BEGIN, 0 when there is none
longestPartialPrefix(data) ==
  LET top == IF Len(BEGIN) - 1 < Len(data) - 1 THEN Len(BEGIN) - 1
             ELSE Len(data) - 1
      ks == {k \in 1..top : EndsWith(data, Slice(BEGIN, 0, k))}
  IN IF ks = {} THEN 0 ELSE CHOOSE k \in ks : \A j \in ks : j <= k

\* header.match(/^([A-Za-z0-9_\-.]+)(?::(\d+))?/): name m[1], index m[2]
HeaderName(header) ==
  LET n == RunOf(header, 0, ToolNameClass) IN
  IF n = 0 THEN JUndefined ELSE JStr(Slice(header, 0, n))

HeaderIndex(header) ==
  LET n == RunOf(header, 0, ToolNameClass)
      d == RunOf(header, n + 1, Digits)
  IN IF n > 0 /\ CharAt(header, n) = ":" /\ d > n + 1
     THEN DecimalValue(Slice(header, n + 1, d), 0)
     ELSE -1

\* the call that a header opens (line 1890)
HeaderCall(header) ==
  ActiveCall(HeaderName(header), HeaderIndex(header), "", FALSE)

\* the state of the parse loop of processTextContent
LoopState(st, data, visibleOut, emittedAny) ==
  [st |-> st, data |-> data, visibleOut |-> visibleOut,
   emittedAny |-> emittedAny]

RECURSIVE LinesLoop(_, _, _, _, _)
\* the for loop over the lines of a fragment without begin-token (1848-1859)
LinesLoop(st, lines, i, visibleOut, emittedAny) ==
  IF i > Len(lines) THEN LoopState(st, "", visibleOut, emittedAny)
  ELSE With(tryEmitJsonToolCallLine(st, lines[i]), LAMBDA r :
    IF r.ret THEN LinesLoop(r.st, lines, i + 1, visibleOut, TRUE)
    ELSE LinesLoop(st, lines, i + 1,
                   visibleOut \o stripControlTokens(lines[i])
                     \o (IF i < Len(lines) THEN "\n" ELSE ""),
                   emittedAny))

\* a pass of the while loop over data without begin-token (1823-1861); lpp
\* is longestPartialPrefix
NoBeginStep(st, data, visibleOut, emittedAny, lpp) ==
  IF lpp > 0
  THEN LoopState(
         [st EXCEPT !.textToolParserBuffer = SliceFrom(data, Len(data) - lpp)],
         "",
         visibleOut \o stripControlTokens(Slice(data, 0, Len(data) - lpp)),
         emittedAny)
  ELSE LinesLoop(st, SplitLines(data), 1, visibleOut, emittedAny)

\* a header closed by the end-token: a call without arguments (1895-1905)
EndStep(st, rest, e, out, emittedAny) ==
  With(HeaderCall(Trim(Slice(rest, 0, e))), LAMBDA call :
  With(emitTextToolCallIfValid([st EXCEPT !.textToolActive = call], call, "{}"),
       LAMBDA em :
    LoopState([em.st EXCEPT !.textToolActive = NoActive],
              SliceFrom(rest, e + Len(END)), out, emittedAny \/ em.did)))

\* a pass of the while loop from the text after a begin-token on (1870-1907)
HeaderStep(st, rest, out, emittedAny) ==
  With(IndexOf(rest, ARG_BEGIN), LAMBDA a :
  With(IndexOf(rest, END), LAMBDA e :
    IF a # -1 /\ (e = -1 \/ a < e)
    THEN LoopState(
           [st EXCEPT !.textToolActive = HeaderCall(Trim(Slice(rest, 0, a)))],
           SliceFrom(rest, a + Len(ARG_BEGIN)), out, emittedAny)
    ELSE IF e # -1 THEN EndStep(st, rest, e, out, emittedAny)
    ELSE LoopState([st EXCEPT !.textToolParserBuffer = BEGIN \o rest],
                   "", out, emittedAny)))

\* one pass of the while loop when no inline call is active (1821-1907);
\* an empty data ends the loop
ScanStep(st, data, visibleOut, emittedAny) ==
  With(IndexOf(data, BEGIN), LAMBDA b :
    IF b = -1
    THEN NoBeginStep(st, data, visibleOut, emittedAny,
                     longestPartialPrefix(data))
    ELSE HeaderStep(st, SliceFrom(data, b + Len(BEGIN)),
                    visibleOut \o stripControlTokens(Slice(data, 0, b)),
                    emittedAny))

\* the emission tried while an inline call is active, acc the state with the
\* arguments accumulated (1913-1923 and 1930-1939)
ActiveEmit(acc) ==
  IF acc.textToolActive.emitted THEN [st |-> acc, did |-> FALSE]
  ELSE emitTextToolCallIfValid(acc, acc.textToolActive,
                               acc.textToolActive.argBuffer)

\* one pass of the while loop while an inline call is active (1910-1940)
ActiveStep(st, data, visibleOut, emittedAny) ==
  With(IndexOf(data, END), LAMBDA e2 :
  With(ActiveEmit([st EXCEPT !.textToolActive.argBuffer =
                     @ \o (IF e2 = -1 THEN data ELSE Slice(data, 0, e2))]),
       LAMBDA em :
    IF e2 = -1
    THEN LoopState([em.st EXCEPT !.textToolActive.emitted = @ \/ em.did],
                   "", visibleOut, emittedAny \/ em.did)
    ELSE LoopState([em.st EXCEPT !.textToolActive = NoActive],
                   SliceFrom(data, e2 + Len(END)),
                   visibleOut, emittedAny \/ em.did)))

RECURSIVE ParseLoop(_, _, _, _)
\* while (data.length > 0) { ... } of processTextContent
ParseLoop(st, data, visibleOut, emittedAny) ==
  IF Len(data) = 0 THEN LoopState(st, data, visibleOut, emittedAny)
  ELSE With(IF st.textToolActive.active
            THEN ActiveStep(st, data, visibleOut, emittedAny)
            ELSE ScanStep(st, data, visibleOut, emittedAny),
            LAMBDA n : ParseLoop(n.st, n.data, n.visibleOut, n.emittedAny))

\* the value processTextContent leaves in _textToolParserBuffer (line 1949)
FinalCarryover(loop) == loop.data

\* the end of processTextContent (lines 1943-1950)
AfterParseLoop(loop) ==
  [st |-> [(IF Len(loop.visibleOut) > 0
            THEN report(loop.st, TextPart(loop.visibleOut))
            ELSE loop.st)
             EXCEPT !.textToolParserBuffer = FinalCarryover(loop)],
   emittedText |-> Len(loop.visibleOut) > 0,
   emittedAny |-> loop.emittedAny \/ Len(loop.visibleOut) > 0]

\* processTextContent: [st, emittedText, emittedAny]
processTextContent(st, input) ==
  AfterParseLoop(ParseLoop(st, st.textToolParserBuffer \o input, "", FALSE))

(***************************************************************************)
(* _toolCallBuffers is a Map: a sequence of entries in insertion order,    *)
(* each [idx, id, name, args] with id and name undefined until received.   *)
(***************************************************************************)
BufferPos(bufs, idx) ==
  IF \E n \in 1..Len(bufs) : bufs[n].idx = idx
  THEN CHOOSE n \in 1..Len(bufs) : bufs[n].idx = idx
  ELSE 0

\* Map.set(idx, buf)
SetBuffer(bufs, buf) ==
  IF BufferPos(bufs, buf.idx) = 0 THEN Append(bufs, buf)
  ELSE [bufs EXCEPT ![BufferPos(bufs, buf.idx)] = buf]

\* Map.delete(idx)
DeleteBuffer(bufs, idx) == SelectSeq(bufs, LAMBDA b : b.idx # idx)

\* the tool-call part of a buffer whose arguments parsed, reported with the
\* bookkeeping of lines 2120-2132 and 2161-2174
EmitBuffer(st, buf, name, parameters) ==
  [report([st EXCEPT !.emittedTextToolCallKeys =
                        @ \cup {name \o ":" \o JsonStringify(parameters)}],
          ToolCallPart(IF buf.id.t = "undefined" THEN "call_" \o RandomSuffix
                       ELSE buf.id.s,
                       name, parameters))
     EXCEPT !.toolCallBuffers = DeleteBuffer(@, buf.idx),
            !.completedToolCallIndices = @ \cup {buf.idx}]

\* an opportunistic emission that does not look at the outcome of the parse
EmitUnparsed(st, buf, canParse) ==
  IF ~Truthy(buf.name) THEN st
  ELSE EmitBuffer(st, buf, buf.name.s, canParse.val)

\* tryEmitBufferedToolCall for a buffer that exists (lines 2113-2133)
EmitIfParsed(st, buf, canParse) ==
  IF ~Truthy(buf.name) THEN st
  ELSE IF ~canParse.ok THEN st
  ELSE EmitBuffer(st, buf, buf.name.s, canParse.val)

\* a loop that leaves every emission to the flush
tryEmitAtFlush(st, index) == st

\* tryEmitBufferedToolCall
tryEmitBufferedToolCall(st, index) ==
  With(BufferPos(st.toolCallBuffers, index), LAMBDA n :
    IF n = 0 THEN st
    ELSE EmitIfParsed(st, st.toolCallBuffers[n],
                      tryParseJSONObject(st.toolCallBuffers[n].args)))

InvalidJsonError == "Invalid JSON for tool call"

RECURSIVE FlushLoop(_, _, _, _)
\* the for loop of flushToolCallBuffers over the entries present at its start
FlushLoop(st, entries, n, throwOnInvalid) ==
  IF n > Len(entries) THEN [st |-> st, err |-> ""]
  ELSE With(tryParseJSONObject(entries[n].args), LAMBDA parsed :
    IF ~parsed.ok
    THEN IF throwOnInvalid THEN [st |-> st, err |-> InvalidJsonError]
         ELSE FlushLoop(st, entries, n + 1, throwOnInvalid)
    ELSE FlushLoop(EmitBuffer(st, entries[n],
                              IF entries[n].name.t = "undefined"
                              THEN "unknown_tool" ELSE entries[n].name.s,
                              parsed.val),
                   entries, n + 1, throwOnInvalid))

\* flushToolCallBuffers: [st, err], err is the message of the error thrown
flushToolCallBuffers(st, throwOnInvalid) ==
  FlushLoop(st, st.toolCallBuffers, 1, throwOnInvalid)

\* tc.index ?? 0 (an index is a non-negative integer literal or absent)
ToolCallIndex(tc) ==
  IF Get(tc, "index").t = "num" THEN DecimalValue(Get(tc, "index").lit, 0)
  ELSE 0

\* this._toolCallBuffers.get(idx) ?? { args: "" }
BufferOrNew(bufs, idx, n) ==
  IF n = 0
  THEN [idx |-> idx, id |-> JUndefined, name |-> JUndefined, args |-> ""]
  ELSE bufs[n]

\* an accumulation in which a fragment replaces the arguments received
\* before it
AccumulatedReplacing(old, tc, func) ==
  [idx |-> old.idx,
   id |-> IF Truthy(Get(tc, "id")) /\ IsString(Get(tc, "id"))
          THEN Get(tc, "id") ELSE old.id,
   name |-> IF Truthy(Get(func, "name")) /\ IsString(Get(func, "name"))
            THEN Get(func, "name") ELSE old.name,
   args |-> IF IsString(Get(func, "arguments"))
            THEN Get(func, "arguments").s ELSE old.args]

\* the buffer after a delta tc with function func was added to it
\* (lines 1777-1786)
Accumulated(old, tc, func) ==
  [idx |-> old.idx,
   id |-> IF Truthy(Get(tc, "id")) /\ IsString(Get(tc, "id"))
          THEN Get(tc, "id") ELSE old.id,
   name |-> IF Truthy(Get(func, "name")) /\ IsString(Get(func, "name"))
            THEN Get(func, "name") ELSE old.name,
   args |-> IF IsString(Get(func, "arguments"))
            THEN old.args \o Get(func, "arguments").s ELSE old.args]

\* the body of the loop over delta.tool_calls for a delta that is not
\* ignored (lines 1776-1790)
AccumulateToolCall(st, tc, idx) ==
  tryEmitBufferedToolCall(
    [st EXCEPT !.toolCallBuffers =
       SetBuffer(@, Accumulated(BufferOrNew(@, idx, BufferPos(@, idx)),
                                tc, Get(tc, "function")))],
    idx)

\* a loop that never takes an index for completed
NeverCompleted(st, idx) == FALSE

\* this._completedToolCallIndices.has(idx): further deltas are ignored
IsCompleted(st, idx) == idx \in st.completedToolCallIndices

RECURSIVE ToolCallsLoop(_, _, _)
\* for (const tc of toolCalls): [st, err]; reading a property of null throws
ToolCallsLoop(st, toolCalls, n) ==
  IF n > Len(toolCalls) THEN [st |-> st, err |-> ""]
  ELSE IF toolCalls[n].t \in {"null", "undefined"}
    THEN [st |-> st, err |-> "TypeError"]
  ELSE IF IsCompleted(st, ToolCallIndex(toolCalls[n]))
    THEN ToolCallsLoop(st, toolCalls, n + 1)
  ELSE ToolCallsLoop(
         AccumulateToolCall(st, toolCalls[n], ToolCallIndex(toolCalls[n])),
         toolCalls, n + 1)

\* a flush of the reasoning that reports the block and keeps the buffer
FlushReasoningKept(st, thinking) ==
  IF thinking /\ st.reasoningContentBuffer # ""
  THEN report(st, TextPart(formatReasoningContent(st.reasoningContentBuffer,
                                                  TRUE)))
  ELSE st

\* the reasoning block reported when answer text or [DONE] arrives
\* (lines 1731-1745 and 1652-1662)
FlushReasoning(st, thinking) ==
  IF thinking /\ st.reasoningContentBuffer # ""
  THEN [report(st, TextPart(formatReasoningContent(st.reasoningContentBuffer,
                                                   TRUE)))
          EXCEPT !.reasoningContentBuffer = ""]
  ELSE st

\* the finish reasons that force a flush of the buffers
FlushingFinish(finish) == finish = JStr("tool_calls") \/ finish = JStr("stop")

\* the throwOnInvalid argument of the flush at a finish reason (line 1797)
FinishThrowOnInvalid == TRUE

\* delta.choices?.[0]
FirstChoice(delta) ==
  IF Get(delta, "choices").t = "arr" /\ Len(Get(delta, "choices").items) > 0
  THEN Get(delta, "choices").items[1]
  ELSE JUndefined

\* the reasoning of a delta is buffered (lines 1711-1724)
ReasoningStep(st, reasoning, thinking) ==
  IF thinking /\ Truthy(reasoning)
  THEN [st EXCEPT !.reasoningContentBuffer = @ \o ToJsString(reasoning),
                  !.hasEmittedThinkingContent = TRUE]
  ELSE st

\* the flag set from the result of processTextContent (lines 1748-1750)
AfterText(textResult) ==
  [textResult.st EXCEPT !.hasEmittedAssistantText = @ \/ textResult.emittedText]

\* the answer text of a delta (lines 1727-1754)
ContentStep(st, content, thinking) ==
  IF Truthy(content)
  THEN AfterText(processTextContent(FlushReasoning(st, thinking),
                                    ToJsString(content)))
  ELSE st

\* the whitespace hint before the first tool call that follows answer text
\* (lines 1761-1768)
HintStep(st, toolCalls) ==
  IF ~st.emittedBeginToolCallsHint /\ st.hasEmittedAssistantText
     /\ toolCalls.t = "arr" /\ Len(toolCalls.items) > 0
  THEN [report(st, TextPart(" ")) EXCEPT !.emittedBeginToolCallsHint = TRUE]
  ELSE st

\* the structured tool calls of a delta (lines 1757-1792): [st, err]
ToolCallsStep(st, toolCalls) ==
  IF ~Truthy(toolCalls) THEN [st |-> st, err |-> ""]
  ELSE IF toolCalls.t = "arr"
    THEN ToolCallsLoop(HintStep(st, toolCalls), toolCalls.items, 1)
  ELSE [st |-> HintStep(st, toolCalls), err |-> "TypeError"]

\* the flush at a finish reason (lines 1794-1798): [st, err]
FinishStep(r, finish) ==
  IF r.err # "" THEN r
  ELSE IF FlushingFinish(finish)
    THEN flushToolCallBuffers(r.st, FinishThrowOnInvalid)
  ELSE r

\* processDelta for a delta that has a first choice (lines 1708-1800)
ChoiceStep(st, choice, deltaObj, thinking) ==
  FinishStep(
    ToolCallsStep(
      ContentStep(
        ReasoningStep(st, Get(deltaObj, "reasoning_content"), thinking),
        Get(deltaObj, "content"), thinking),
      Get(deltaObj, "tool_calls")),
    Get(choice, "finish_reason"))

\* processDelta: [st, err] where err # "" is the error it throws
processDelta(st, delta, thinking) ==
  With(FirstChoice(delta), LAMBDA choice :
    IF ~Truthy(choice) THEN [st |-> st, err |-> ""]
    ELSE ChoiceStep(st, choice, Get(choice, "delta"), thinking))

\* a flush at [DONE] that throws like the one at a finish reason
DoneThrows == TRUE

\* the throwOnInvalid argument of the flush at [DONE] (line 1664)
DoneThrowOnInvalid == FALSE

\* the end of the handling of "[DONE]" (lines 1664-1666)
AfterDoneFlush(f) ==
  IF f.err # "" THEN f
  ELSE [st |-> flushActiveTextToolCall(f.st), err |-> ""]

\* the handling of a "[DONE]" payload (lines 1650-1667): [st, err]
ProcessDone(st, thinking) ==
  AfterDoneFlush(flushToolCallBuffers(FlushReasoning(st, thinking),
                                      DoneThrowOnInvalid))

\* what the catch of line 1672 does with an error thrown by JSON.parse or by
\* processDelta: it is swallowed, the loop goes on with the next line
CatchFrameError(r) == [st |-> r.st, err |-> "", caught |-> r.err]

\* a line whose payload is "[DONE]": an error of the flush is not caught
DoneLine(done) == [st |-> done.st, err |-> done.err, caught |-> ""]

\* try { await processDelta(JSON.parse(data)) } catch { } (lines 1669-1675)
TryDelta(r) ==
  IF r.err # "" THEN CatchFrameError(r)
  ELSE [st |-> r.st, err |-> "", caught |-> ""]

\* a payload that is not JSON ends the turn as "[DONE]" does
JsonLineFlushing(st, parsed, thinking) ==
  IF ~parsed.ok THEN DoneLine(ProcessDone(st, thinking))
  ELSE TryDelta(processDelta(st, parsed.val, thinking))

\* a line whose payload is parsed as JSON (lines 1669-1675)
JsonLine(st, parsed, thinking) ==
  IF ~parsed.ok THEN CatchFrameError([st |-> st, err |-> "SyntaxError"])
  ELSE TryDelta(processDelta(st, parsed.val, thinking))

\* the body of the loop over the complete lines of a read (lines 1646-1675):
\* [st, err, caught]; caught is the error the catch swallowed, "" when none
ProcessLine(st, line, thinking) ==
  IF ~StartsWith(line, "data: ") THEN [st |-> st, err |-> "", caught |-> ""]
  ELSE IF SliceFrom(line, 6) = "[DONE]" THEN DoneLine(ProcessDone(st, thinking))
  ELSE JsonLine(st, JsonParse(SliceFrom(line, 6)), thinking)

RECURSIVE LinesOfRead(_, _, _, _, _)
\* for (const line of lines): [st, err, caught]; caught collects the errors
\* swallowed on the way
LinesOfRead(st, lines, n, thinking, caught) ==
  IF n > Len(lines) THEN [st |-> st, err |-> "", caught |-> caught]
  ELSE With(ProcessLine(st, lines[n], thinking), LAMBDA r :
    IF r.err # ""
    THEN [st |-> r.st, err |-> r.err,
          caught |-> IF r.caught = "" THEN caught ELSE Append(caught, r.caught)]
    ELSE LinesOfRead(r.st, lines, n + 1, thinking,
                     IF r.caught = "" THEN caught
                     ELSE Append(caught, r.caught)))

\* a read loop that forgets the partial last line of a read
HeldBackDropped(lines) == ""

\* the partial last line a read leaves in buffer: lines.pop() || ""
HeldBack(lines) == lines[Len(lines)]

\* the result of a read whose complete lines were processed
AfterLines(r, held) ==
  [st |-> r.st, buffer |-> held, err |-> r.err, caught |-> r.caught]

\* the lines of a read, the last one partial (lines 1642-1644)
ReadLines(st, lines, thinking) ==
  AfterLines(LinesOfRead(st, SubSeq(lines, 1, Len(lines) - 1), 1, thinking,
                         <<>>),
             HeldBack(lines))

\* one pass of the read loop after reader.read() returned a chunk
\* (lines 1641-1675): [st, buffer, err, caught]
ReadChunk(st, buffer, chunk, thinking) ==
  ReadLines(st, SplitOn(buffer \o chunk, "\n"), thinking)

\* a processStreamingResponse without the cleanup of its finally block
CleanupSkipped(st) == st

\* the finally block of processStreamingResponse (lines 1680-1689)
StreamCleanup(st) ==
  [st EXCEPT !.toolCallBuffers = <<>>,
             !.completedToolCallIndices = {},
             !.hasEmittedAssistantText = FALSE,
             !.emittedBeginToolCallsHint = FALSE,
             !.textToolParserBuffer = "",
             !.textToolActive = NoActive,
             !.emittedTextToolCallKeys = {},
             !.emittedTextToolCallIds = {},
             !.hasEmittedThinkingContent = FALSE,
             !.reasoningContentBuffer = ""]

\* the reset at the start of provideLanguageModelChatResponse (1357-1364)
RequestReset(st) ==
  [st EXCEPT !.toolCallBuffers = <<>>,
             !.completedToolCallIndices = {},
             !.hasEmittedAssistantText = FALSE,
             !.emittedBeginToolCallsHint = FALSE,
             !.textToolParserBuffer = "",
             !.textToolActive = NoActive,
             !.emittedTextToolCallKeys = {},
             !.emittedTextToolCallIds = {}]

(***************************************************************************)
(* The server side: the logical frames of a response and their bytes on    *)
(* the wire.  A frame is a description; WireLine is the SSE text the       *)
(* server sends for it (the bytes are ASCII, which TextDecoder maps to the *)
(* same characters).                                                       *)
(***************************************************************************)
ContentFrame(text) == [k |-> "content", text |-> text]
ReasoningFrame(text) == [k |-> "reasoning", text |-> text]
\* id and name are "" when the delta does not carry them
ToolFrame(index, id, name, args) ==
  [k |-> "tool", index |-> index, id |-> id, name |-> name, args |-> args]
FinishFrame(reason) == [k |-> "finish", reason |-> reason]
DoneFrame == [k |-> "done"]
\* any other line, sent as it is
RawFrame(line) == [k |-> "raw", line |-> line]

ChoiceJson(delta, extraKeys, extraVals) ==
  JObj(<<"choices">>,
       <<JArr(<<JObj(<<"delta">> \o extraKeys, <<delta>> \o extraVals)>>)>>)

ToolCallJson(f) ==
  JObj(<<"index">> \o (IF f.id = "" THEN <<>> ELSE <<"id">>) \o <<"function">>,
       <<JNum(ToString(f.index))>>
         \o (IF f.id = "" THEN <<>> ELSE <<JStr(f.id)>>)
         \o <<JObj((IF f.name = "" THEN <<>> ELSE <<"name">>) \o <<"arguments">>,
                   (IF f.name = "" THEN <<>> ELSE <<JStr(f.name)>>)
                     \o <<JStr(f.args)>>)>>)

FrameJson(f) ==
  CASE f.k = "content" ->
         ChoiceJson(JObj(<<"content">>, <<JStr(f.text)>>), <<>>, <<>>)
    [] f.k = "reasoning" ->
         ChoiceJson(JObj(<<"reasoning_content">>, <<JStr(f.text)>>), <<>>, <<>>)
    [] f.k = "tool" ->
         ChoiceJson(JObj(<<"tool_calls">>, <<JArr(<<ToolCallJson(f)>>)>>),
                    <<>>, <<>>)
    [] OTHER ->
         ChoiceJson(JObj(<<>>, <<>>), <<"finish_reason">>, <<JStr(f.reason)>>)

WireLine(f) ==
  CASE f.k = "done" -> "data: [DONE]\n\n"
    [] f.k = "raw" -> f.line \o "\n"
    [] OTHER -> "data: " \o JsonStringify(FrameJson(f)) \o "\n\n"

RECURSIVE WireBytes(_, _)
\* the bytes of the frames from the n-th on
WireBytes(frames, n) ==
  IF n > Len(frames) THEN ""
  ELSE WireLine(frames[n]) \o WireBytes(frames, n + 1)

\* what the server sends in a request: a family of streams, the frames sent
\* so far and how the transport cuts their bytes into reads: one read per
\* frame (cut = -1), or two reads for the whole stream, the first of cut
\* bytes
Scenario(family, frames, cut) ==
  [family |-> family, frames |-> frames, cut |-> cut]

TwoReads(frames, cut) ==
  LET bytes == WireBytes(frames, 1) IN
  <<Slice(bytes, 0, cut), SliceFrom(bytes, cut)>>

(***************************************************************************)
(* Bounds and input sets.                                                  *)
(***************************************************************************)
\* the longest stream of the families that draw every frame freely
MaxFrames == 3
\* the longest run of reasoning deltas, and of answer deltas after them
MaxRun == 2

LookupArgs == "{\"q\":\"x\"}"
LookupOpen == ToolFrame(0, "c1", "lookup", "")
LookupHead == ToolFrame(0, "c1", "lookup", "{\"q\":")
LookupTail == ToolFrame(0, "", "", "\"x\"}")
Unnamed == ToolFrame(1, "", "", "{}")

FooArgs == "{\"a\":1}"
FooStructured == ToolFrame(0, "c1", "foo", FooArgs)
InlineFoo == BEGIN \o "foo" \o ARG_BEGIN \o FooArgs \o END
InlineFooIndexed == BEGIN \o "foo:0" \o ARG_BEGIN \o FooArgs \o END
JsonLineFoo == "{\"name\":\"foo\",\"arguments\":{\"a\":1}}"

\* structured deltas and the frames that end a turn
StructuredAlphabet ==
  {LookupHead, LookupTail, Unnamed, FinishFrame("tool_calls"),
   FinishFrame("stop"), DoneFrame}

\* one call as structured deltas, as inline text and as a JSON line
DedupAlphabet ==
  {FooStructured, ContentFrame(InlineFoo), ContentFrame(InlineFooIndexed),
   ContentFrame(JsonLineFoo)}

ReasoningTexts == {"think ", "hard\nmore"}
AnswerTexts == {"Hi", " there"}
RoundTripTexts == {"Let me check ", "Hi"}

FramesOfKind(frames, k) == SelectSeq(frames, LAMBDA f : f.k = k)

\* reasoning deltas, then answer deltas, then [DONE]
ReasoningNext(frames) ==
  LET last == IF frames = <<>> THEN "" ELSE frames[Len(frames)].k
      more(k, texts, make(_)) ==
        IF Len(FramesOfKind(frames, k)) < MaxRun
        THEN {make(t) : t \in texts} ELSE {}
  IN CASE last = "" -> {ReasoningFrame(t) : t \in ReasoningTexts}
       [] last = "reasoning" ->
            more("reasoning", ReasoningTexts, ReasoningFrame)
              \cup {ContentFrame(t) : t \in AnswerTexts}
       [] last = "content" ->
            more("content", AnswerTexts, ContentFrame) \cup {DoneFrame}
       [] OTHER -> {}

\* answer text, a structured call whose arguments come in two fragments cut
\* at any offset, then finish_reason "tool_calls"
RoundTripNext(frames) ==
  CASE Len(frames) = 0 -> {ContentFrame(t) : t \in RoundTripTexts}
    [] Len(frames) = 1 -> {LookupOpen}
    [] Len(frames) = 2 ->
         {ToolFrame(0, "", "", Slice(LookupArgs, 0, k)) :
            k \in 0..Len(LookupArgs)}
    [] Len(frames) = 3 ->
         {ToolFrame(0, "", "", SliceFrom(LookupArgs, Len(frames[3].args)))}
    [] Len(frames) = 4 -> {FinishFrame("tool_calls")}
    [] OTHER -> {}

\* the inline sequence as two answer-text fragments cut at any offset inside
\* it, then [DONE]
InlineSplitNext(frames) ==
  CASE Len(frames) = 0 ->
         {ContentFrame(Slice(InlineFoo, 0, k)) : k \in 1..(Len(InlineFoo) - 1)}
    [] Len(frames) = 1 ->
         {ContentFrame(SliceFrom(InlineFoo, Len(frames[1].text)))}
    [] Len(frames) = 2 -> {DoneFrame}
    [] OTHER -> {}

Families == {"structured", "dedup", "reasoning", "roundTrip", "inlineSplit"}

\* the longest stream of the families of the inline parser
MaxInline == 3

FooOpen == BEGIN \o "foo" \o ARG_BEGIN
FooIndexedOpen == BEGIN \o "foo:0" \o ARG_BEGIN
JsonLineNested ==
  "{\"function\":{\"name\":\"foo\",\"arguments\":\"{\\\"a\\\":1}\"}}"

\* answer text with inline calls: a call between two texts, text that ends
\* with a prefix of the begin-token and what may follow it, a header that is
\* not terminated and what may follow it, calls whose arguments and
\* end-token come in later fragments, as an object or as a number
InlineAlphabet ==
  {ContentFrame("go " \o InlineFoo \o " on"),
   ContentFrame("Hi <"),
   ContentFrame("3"),
   ContentFrame("Hi " \o Slice(BEGIN, 0, 11)),
   ContentFrame(SliceFrom(BEGIN, 11) \o "foo" \o ARG_BEGIN \o FooArgs \o END),
   ContentFrame("so " \o BEGIN \o "foo"),
   ContentFrame(ARG_BEGIN \o FooArgs \o END),
   ContentFrame(FooIndexedOpen \o FooArgs),
   ContentFrame(FooOpen \o "{\"a\":"),
   ContentFrame(FooOpen \o "1"),
   ContentFrame(FooOpen),
   ContentFrame("1}"),
   ContentFrame(END \o " done"),
   ContentFrame(InlineFooIndexed),
   DoneFrame}

\* answer text with lines that are JSON objects: a call alone, between
\* other lines, before a line that ends with a prefix of the begin-token,
\* with its name and arguments under function, without a name, with
\* arguments that are an array or a string holding 0, with an input object
JsonLineAlphabet ==
  {ContentFrame(JsonLineFoo),
   ContentFrame("ok\n" \o JsonLineFoo \o "\nbye"),
   ContentFrame(JsonLineFoo \o "\nthen <"),
   ContentFrame(JsonLineNested),
   ContentFrame("{\"arguments\":{\"a\":1}}"),
   ContentFrame("{\"name\":\"foo\",\"arguments\":[1]}"),
   ContentFrame("{\"name\":\"foo\",\"arguments\":\"0\"}"),
   ContentFrame("{\"name\":\"foo\",\"input\":{\"a\":1}}"),
   ContentFrame("plain <|tool_call_end|>text"),
   DoneFrame}

LookupLate == ToolFrame(0, "c1", "", LookupArgs)
LookupName == ToolFrame(0, "", "lookup", "")

\* structured deltas whose name comes with, before or after the arguments,
\* or never
NamesAlphabet ==
  {LookupLate, LookupName, LookupHead, LookupTail, Unnamed,
   FinishFrame("tool_calls"), DoneFrame}

NameLook == ToolFrame(0, "c1", "look", "")
NameUp == ToolFrame(0, "", "up", "")
FooAtOne == ToolFrame(1, "c2", "foo", FooArgs)

\* structured deltas whose name and whose arguments come in fragments, with
\* a call of another index or answer text between them
FragmentsAlphabet ==
  {NameLook, NameUp, LookupLate, LookupHead, LookupTail, FooAtOne,
   ContentFrame("Hi"), DoneFrame}

ParserFamilies == {"inline", "jsonLine", "names", "fragments"}

\* the frames the server may send next
NextFrames(sc) ==
  CASE sc.family = "structured" ->
         IF Len(sc.frames) < MaxFrames THEN StructuredAlphabet ELSE {}
    [] sc.family = "dedup" ->
         IF Len(sc.frames) < MaxFrames THEN DedupAlphabet ELSE {}
    [] sc.family = "reasoning" -> ReasoningNext(sc.frames)
    [] sc.family = "roundTrip" -> RoundTripNext(sc.frames)
    [] sc.family = "inlineSplit" -> InlineSplitNext(sc.frames)
    [] sc.family = "inline" ->
         IF Len(sc.frames) < MaxInline THEN InlineAlphabet ELSE {}
    [] sc.family = "jsonLine" ->
         IF Len(sc.frames) < MaxInline THEN JsonLineAlphabet ELSE {}
    [] sc.family = "names" ->
         IF Len(sc.frames) < MaxInline THEN NamesAlphabet ELSE {}
    [] sc.family = "fragments" ->
         IF Len(sc.frames) < MaxInline THEN FragmentsAlphabet ELSE {}
    [] OTHER -> {}

\* whole streams whose bytes are cut into two reads at every offset
CutStreams ==
  {<<RawFrame(": keep-alive"), ContentFrame("Hi"), LookupHead,
     RawFrame("data: {\"choices\":"), LookupTail, DoneFrame>>,
   <<ReasoningFrame("hm"), ContentFrame("go " \o InlineFoo), FooStructured,
     FinishFrame("stop"), RawFrame("data: [DONE]")>>}

\* the offsets at which the bytes of a whole stream are cut into two reads
CutOffsets(frames) == 0..Len(WireBytes(frames, 1))

NoScenario == Scenario("none", <<>>, -1)

(***************************************************************************)
(* One provider instance serving requests one after another.               *)
(***************************************************************************)
VARIABLES
  provider,         \* the parser fields of the instance and the sink
  pc,               \* where provideLanguageModelChatResponse is
  buffer,           \* the decode buffer of processStreamingResponse
  wire,             \* the reads the transport has still to deliver
  scenario,         \* what the server has sent in this request
  caught,           \* the errors swallowed by the catch of the read loop
  cancelRequested,  \* token.isCancellationRequested
  thinkingEnabled,  \* the zai.enableThinking setting
  front,            \* a call on its way from its start to the stream
  calls,            \* the locals of two calls that overlap in time
  util,             \* a call of one of the functions of the utilities
  mcp               \* the MCP client, its secret storage and its network

vars ==
  <<provider, pc, buffer, wire, scenario, caught, cancelRequested,
    thinkingEnabled, front, calls, util, mcp>>

\* the variables of the calls followed before the stream and of the calls
\* that overlap, which a single call followed through its stream leaves alone
others == <<front, calls, util, mcp>>

\* no call is followed before its stream; no calls overlap
NoFront == [pc |-> "none"]
NoCalls == <<>>
\* no function of the utilities is called; no MCP client exists
NoUtil == [op |-> "none"]
NoMcp == [pc |-> "none"]

Finished == {"returned", "threw", "cancelled"}

Init ==
  /\ provider = FreshState
  /\ pc = "idle"
  /\ buffer = ""
  /\ wire = <<>>
  /\ scenario = NoScenario
  /\ caught = <<>>
  /\ cancelRequested = FALSE
  /\ thinkingEnabled = TRUE
  /\ front = NoFront
  /\ calls = NoCalls
  /\ util = NoUtil
  /\ mcp = NoMcp

\* the user changes the zai.enableThinking setting (between requests)
Configure ==
  /\ pc = "idle"
  /\ thinkingEnabled' = ~thinkingEnabled
  /\ UNCHANGED <<provider, pc, buffer, wire, scenario, caught,
                 cancelRequested>>
  /\ UNCHANGED others

\* provideLanguageModelChatResponse is called while no call is running:
\* the reset of lines 1357-1364, with a new sink and a new token
Provide ==
  /\ pc = "idle"
  /\ \/ \E f \in Families :
          /\ scenario' = Scenario(f, <<>>, -1)
          /\ wire' = <<>>
     \/ \E fs \in CutStreams : \E c \in CutOffsets(fs) :
          /\ scenario' = Scenario("cut", fs, c)
          /\ wire' = TwoReads(fs, c)
  /\ provider' = [RequestReset(provider) EXCEPT !.progress = <<>>]
  /\ pc' = "started"
  /\ buffer' = ""
  /\ caught' = <<>>
  /\ cancelRequested' = FALSE
  /\ UNCHANGED thinkingEnabled
  /\ UNCHANGED others

\* provideLanguageModelChatResponse is called for a response of one of the
\* families of the inline parser
ParserProvide ==
  /\ pc = "idle"
  /\ \E f \in ParserFamilies : scenario' = Scenario(f, <<>>, -1)
  /\ wire' = <<>>
  /\ provider' = [RequestReset(provider) EXCEPT !.progress = <<>>]
  /\ pc' = "started"
  /\ buffer' = ""
  /\ caught' = <<>>
  /\ cancelRequested' = FALSE
  /\ UNCHANGED thinkingEnabled
  /\ UNCHANGED others

\* the catch of lines 1545-1560: a cancelled token turns any failure into a
\* CancellationError
Rethrow == IF cancelRequested THEN "cancelled" ELSE "threw"

\* the request passed validation and fetch answered 2xx with a body:
\* processStreamingResponse finds the token not cancelled and waits for the
\* first read
SendRequest ==
  /\ pc = "started"
  /\ ~cancelRequested
  /\ pc' = "reading"
  /\ UNCHANGED <<provider, buffer, wire, scenario, caught, cancelRequested,
                 thinkingEnabled>>
  /\ UNCHANGED others

\* anything thrown before processStreamingResponse is called (no API key,
\* validation, the cancellation check, an HTTP error, no body)
FailBeforeStreaming ==
  /\ pc = "started"
  /\ pc' = Rethrow
  /\ UNCHANGED <<provider, buffer, wire, scenario, caught, cancelRequested,
                 thinkingEnabled>>
  /\ UNCHANGED others

\* the server sends one more frame of the stream
ServerSend ==
  /\ pc = "reading"
  /\ ~cancelRequested
  /\ wire = <<>>
  /\ \E f \in NextFrames(scenario) :
       /\ scenario' = [scenario EXCEPT !.frames = Append(@, f)]
       /\ wire' = <<WireLine(f)>>
  /\ UNCHANGED <<provider, pc, buffer, caught, cancelRequested,
                 thinkingEnabled>>
  /\ UNCHANGED others

\* what follows the processing of a chunk, r the result of ReadChunk: an
\* error leaves through the finally block, a cancelled token ends the loop,
\* otherwise the loop waits for the next read
AfterChunk(r) ==
  /\ caught' = caught \o r.caught
  /\ IF r.err # ""
     THEN /\ provider' = StreamCleanup(r.st)
          /\ buffer' = ""
          /\ pc' = Rethrow
     ELSE IF cancelRequested
     THEN /\ provider' = StreamCleanup(r.st)
          /\ buffer' = ""
          /\ pc' = "returned"
     ELSE /\ provider' = r.st
          /\ buffer' = r.buffer
          /\ pc' = "reading"

\* one pass of the read loop: reader.read() delivers the next chunk, its
\* complete lines are processed and the loop condition is evaluated again
Read ==
  /\ pc = "reading"
  /\ wire # <<>>
  /\ AfterChunk(ReadChunk(provider, buffer, Head(wire), thinkingEnabled))
  /\ wire' = Tail(wire)
  /\ UNCHANGED <<scenario, cancelRequested, thinkingEnabled>>
  /\ UNCHANGED others

\* reader.read() reports done: the loop ends, the finally block runs and the
\* request completes
EndOfStream ==
  /\ pc = "reading"
  /\ wire = <<>>
  /\ provider' = StreamCleanup(provider)
  /\ pc' = "returned"
  /\ buffer' = ""
  /\ UNCHANGED <<wire, scenario, caught, cancelRequested, thinkingEnabled>>
  /\ UNCHANGED others

\* reader.read() rejects (the connection broke, or the fetch was aborted by
\* the cancellation): the finally block runs and the error reaches the catch
ReadFails ==
  /\ pc = "reading"
  /\ provider' = StreamCleanup(provider)
  /\ pc' = Rethrow
  /\ buffer' = ""
  /\ UNCHANGED <<wire, scenario, caught, cancelRequested, thinkingEnabled>>
  /\ UNCHANGED others

\* the user cancels the request
Cancel ==
  /\ pc \in {"started", "reading"}
  /\ ~cancelRequested
  /\ cancelRequested' = TRUE
  /\ UNCHANGED <<provider, pc, buffer, wire, scenario, caught,
                 thinkingEnabled>>
  /\ UNCHANGED others

\* processStreamingResponse starts with the token already cancelled: the loop
\* condition of line 1635 fails at once, the finally block runs, the function
\* returns
StopOnCancel ==
  /\ pc = "started"
  /\ cancelRequested
  /\ provider' = StreamCleanup(provider)
  /\ pc' = "returned"
  /\ buffer' = ""
  /\ UNCHANGED <<wire, scenario, caught, cancelRequested, thinkingEnabled>>
  /\ UNCHANGED others

\* the caller has taken the outcome of the finished call; the instance keeps
\* its fields for the next call
Settle ==
  /\ pc \in Finished
  /\ pc' = "idle"
  /\ provider' = [provider EXCEPT !.progress = <<>>]
  /\ wire' = <<>>
  /\ scenario' = NoScenario
  /\ caught' = <<>>
  /\ cancelRequested' = FALSE
  /\ UNCHANGED <<buffer, thinkingEnabled>>
  /\ UNCHANGED others

Next ==
  \/ Configure
  \/ Provide
  \/ SendRequest
  \/ FailBeforeStreaming
  \/ ServerSend
  \/ Read
  \/ EndOfStream
  \/ ReadFails
  \/ Cancel
  \/ StopOnCancel
  \/ Settle

Spec == Init /\ [][Next]_vars

\* the calls whose responses exercise the inline parser and the structured
\* buffers, one read per frame, without cancellation
ParserNext ==
  \/ ParserProvide
  \/ SendRequest
  \/ ServerSend
  \/ Read
  \/ EndOfStream
  \/ Settle

ParserSpec == Init /\ [][ParserNext]_vars

\* the calls of the inline parser with the ends a stream can take: the
\* stream ends, breaks or is cancelled
LiveNext ==
  \/ ParserProvide
  \/ SendRequest
  \/ FailBeforeStreaming
  \/ ServerSend
  \/ Read
  \/ EndOfStream
  \/ ReadFails
  \/ Cancel
  \/ StopOnCancel
  \/ Settle

\* the step of Read as the transport sees it: the pending reader.read() takes
\* the chunk that arrived
ChunkTaken == pc = "reading" /\ wire # <<>> /\ wire' = Tail(wire)

\* a chunk that arrived is taken by the pending reader.read(), and a stream
\* that sends nothing more signals its end: an HTTP response is finite, and
\* the AbortController of line 1365 settles the pending read of a cancelled
\* call
LiveSpec ==
  Init /\ [][LiveNext]_vars /\ WF_wire(ChunkTaken) /\ WF_vars(EndOfStream)

\* the parts of kind k in a sequence of parts
PartsOfKind(parts, k) == SelectSeq(parts, LAMBDA p : p.kind = k)

TypeOK ==
  /\ pc \in {"idle", "started", "reading"} \cup Finished
  /\ cancelRequested \in BOOLEAN
  /\ thinkingEnabled \in BOOLEAN
  /\ scenario.family \in Families \cup {"cut", "none"}
  /\ Len(wire) <= 2

(***************************************************************************)
(* The messages and the tools of a request, and their conversion to the    *)
(* format of the API.  The parts of a message are instances of the host's  *)
(* part classes: TextPart, ToolCallPart, DataPart and ToolResultPart.      *)
(***************************************************************************)
\* new LanguageModelDataPart(data, mimeType), data a sequence of bytes
DataPart(mimeType, data) ==
  [kind |-> "data", mimeType |-> mimeType, data |-> data]
\* new LanguageModelToolResultPart(callId, content)
ToolResultPart(callId, content) ==
  [kind |-> "toolResult", callId |-> callId, content |-> content]

ChatMessage(role, content) == [role |-> role, content |-> content]

RECURSIVE Join(_, _)
\* pieces.join(sep)
Join(pieces, sep) ==
  IF pieces = <<>> THEN ""
  ELSE IF Len(pieces) = 1 THEN pieces[1]
  ELSE pieces[1] \o sep \o Join(Tail(pieces), sep)

RECURSIVE Concat(_)
\* the sequences of a sequence, one after another
Concat(seqs) ==
  IF seqs = <<>> THEN <<>> ELSE Head(seqs) \o Concat(Tail(seqs))

\* parts.flatMap(F), F giving a sequence
FlatMap(parts, F(_)) == Concat([n \in 1..Len(parts) |-> F(parts[n])])

\* the value of a text part, as a sequence of at most one string
getTextPartValue(part) ==
  IF part.kind = "text" THEN <<part.value>> ELSE <<>>

\* the image of a data part whose type starts with "image/" and which has
\* bytes, as a sequence of at most one image
extractImageData(part) ==
  IF /\ part.kind = "data"
     /\ StartsWith(part.mimeType, "image/")
     /\ Len(part.data) > 0
  THEN <<[mimeType |-> part.mimeType, data |-> part.data]>>
  ELSE <<>>

Base64Alphabet ==
  "ABCDEFGHIJKLMNOPQRSTUVWXYZabcdefghijklmnopqrstuvwxyz0123456789+/"

Base64Char(n) == CharAt(Base64Alphabet, n)

\* the four characters of one group of up to three bytes, absent bytes given
\* as -1
Base64Group(b1, b2, b3) ==
  Base64Char(b1 \div 4)
    \o Base64Char((b1 % 4) * 16 + (IF b2 < 0 THEN 0 ELSE b2 \div 16))
    \o (IF b2 < 0 THEN "="
        ELSE Base64Char((b2 % 16) * 4 + (IF b3 < 0 THEN 0 ELSE b3 \div 64)))
    \o (IF b3 < 0 THEN "=" ELSE Base64Char(b3 % 64))

RECURSIVE Base64(_, _)
\* Buffer.from(data).toString("base64"), from the n-th byte on
Base64(data, n) ==
  IF n > Len(data) THEN ""
  ELSE Base64Group(data[n],
                   IF n + 1 > Len(data) THEN -1 ELSE data[n + 1],
                   IF n + 2 > Len(data) THEN -1 ELSE data[n + 2])
       \o Base64(data, n + 3)

\* `data:${mimeType};base64,${base64Data}`
ImageDataUrl(img) ==
  "data:" \o img.mimeType \o ";base64," \o Base64(img.data, 1)

ImageUrlPart(img) ==
  JObj(<<"type", "image_url">>,
       <<JStr("image_url"), JObj(<<"url">>, <<JStr(ImageDataUrl(img))>>)>>)

\* JSON.stringify of a part that is not a text part: the JSON text of its own
\* fields, the bytes of a data part as an object keyed by position
PartJson(part) ==
  CASE part.kind = "toolCall" ->
         JsonStringify(JObj(<<"callId", "name", "input">>,
                            <<JStr(part.callId), JStr(part.name), part.input>>))
    [] part.kind = "data" ->
         JsonStringify(
           JObj(<<"mimeType", "data">>,
                <<JStr(part.mimeType),
                  JObj([n \in 1..Len(part.data) |-> ToString(n - 1)],
                       [n \in 1..Len(part.data) |->
                          JNum(ToString(part.data[n]))])>>))
    [] OTHER -> "{}"

\* what the loop of lines 142-163 pushes for a part inside a tool result
InnerResultText(inner) ==
  IF inner.kind = "text" THEN <<inner.value>> ELSE <<PartJson(inner)>>

\* getToolResultTexts(part): the texts inside a tool result; for any other
\* object its string value when it has one (every text part has), else the
\* JSON text of the object
getToolResultTexts(part) ==
  IF part.kind = "toolResult" THEN FlatMap(part.content, InnerResultText)
  ELSE IF part.kind = "text" THEN <<part.value>>
  ELSE <<PartJson(part)>>

\* getToolCallInfo(part) turned into the tool_calls entry of lines 253-260: a
\* tool-call part, and also any object with a callId, which a tool result is
getToolCallInfo(part) ==
  IF part.kind = "toolCall"
  THEN <<[id |-> part.callId, name |-> part.name,
          arguments |-> JsonStringify(part.input)]>>
  ELSE IF part.kind = "toolResult" /\ part.callId # ""
  THEN <<[id |-> part.callId, name |-> "unknown", arguments |-> "{}"]>>
  ELSE <<>>

\* the callId of a tool result or of a tool call, as a sequence of at most one
CallIdOf(part) ==
  IF part.kind \in {"toolResult", "toolCall"} THEN <<part.callId>> ELSE <<>>

\* getFirstToolResultCallId(parts), as a sequence of at most one
getFirstToolResultCallId(parts) ==
  IF FlatMap(parts, CallIdOf) = <<>> THEN <<>>
  ELSE <<FlatMap(parts, CallIdOf)[1]>>

EmptyMessagePlaceholder == "(empty message)"

\* the content for the text of the tool results (lines 265-268)
ToolResultContent(textParts, toolResultTexts) ==
  JStr(Trim(Join(textParts, " ") \o "\n" \o Join(toolResultTexts, "\n")))

\* the content of a message with images (lines 232-239)
ImageContent(textContent, imageParts) ==
  JArr((IF textContent # ""
        THEN <<JObj(<<"type", "text">>, <<JStr("text"), JStr(textContent)>>)>>
        ELSE <<>>) \o imageParts)

\* the content of a message without images (lines 240-243)
TextContent(textContent) ==
  JStr(IF textContent # "" THEN textContent ELSE EmptyMessagePlaceholder)

\* the content of a message: its text or its images, and in their place the
\* text of its tool results when it has any (lines 232-243, 264-268)
MessageContent(textParts, imageParts, toolResultTexts) ==
  IF toolResultTexts # <<>> THEN ToolResultContent(textParts, toolResultTexts)
  ELSE IF imageParts # <<>> THEN ImageContent(Join(textParts, ""), imageParts)
  ELSE TextContent(Join(textParts, ""))

ImageUrlOf(part) ==
  IF extractImageData(part) = <<>> THEN <<>>
  ELSE <<ImageUrlPart(extractImageData(part)[1])>>

\* the body of the loop of convertMessages (lines 196-279)
ConvertMessage(msg) ==
  [role |-> IF msg.role = "User" THEN "user"
            ELSE IF msg.role = "Assistant" THEN "assistant" ELSE "system",
   content |-> MessageContent(FlatMap(msg.content, getTextPartValue),
                              FlatMap(msg.content, ImageUrlOf),
                              FlatMap(msg.content, getToolResultTexts)),
   tool_calls |-> FlatMap(msg.content, getToolCallInfo),
   tool_call_id |-> getFirstToolResultCallId(msg.content)]

convertMessages(messages) ==
  [n \in 1..Len(messages) |-> ConvertMessage(messages[n])]

\* only the first message is looked at
validateFirstMessage(messages) ==
  IF messages = <<>> THEN "Messages array is empty"
  ELSE IF messages[1].content = <<>> THEN "Message has no content"
  ELSE ""

\* validateRequest(messages): the message of the error thrown, "" when none
validateRequest(messages) ==
  IF messages = <<>> THEN "Messages array is empty"
  ELSE IF \E n \in 1..Len(messages) : messages[n].content = <<>>
  THEN "Message has no content"
  ELSE ""

\* Math.ceil(n / d) for n >= 0
CeilDiv(n, d) == (n + d - 1) \div d

CharsPerToken == 4
TokensPerImage == 1500

\* estimateTokens(text)
estimateTokens(text) == CeilDiv(Len(text), CharsPerToken)

\* what a part adds in estimateMessagesTokens (lines 388-398)
PartTokens(part) ==
  IF part.kind = "text" THEN estimateTokens(part.value)
  ELSE IF extractImageData(part) # <<>> THEN TokensPerImage
  ELSE 0

RECURSIVE Sum(_)
Sum(numbers) ==
  IF numbers = <<>> THEN 0 ELSE Head(numbers) + Sum(Tail(numbers))

MessageTokens(m) == Sum([n \in 1..Len(m.content) |-> PartTokens(m.content[n])])

\* the characters of the texts are added up before the division
estimateOnTotalLength(messages) ==
  CeilDiv(Sum([n \in 1..Len(messages) |->
                 Sum([k \in 1..Len(messages[n].content) |->
                        IF messages[n].content[k].kind = "text"
                        THEN Len(messages[n].content[k].value) ELSE 0])]),
          CharsPerToken)
    + Sum([n \in 1..Len(messages) |->
             Sum([k \in 1..Len(messages[n].content) |->
                    IF extractImageData(messages[n].content[k]) # <<>>
                    THEN TokensPerImage ELSE 0])])

\* estimateMessagesTokens(messages)
estimateMessagesTokens(messages) ==
  Sum([n \in 1..Len(messages) |-> MessageTokens(messages[n])])

\* the entry of convertTools for one tool (lines 314-321)
ConvertTool(tool) ==
  JObj(<<"type", "function">>,
       <<JStr("function"),
         JObj(<<"name", "description", "parameters">>,
              <<JStr(tool.name), JStr(tool.description), tool.inputSchema>>)>>)

\* convertTools(options).tools, as a sequence of at most one array:
\* no entry when the request has no tools
convertTools(tools) ==
  IF tools = <<>> THEN <<>>
  ELSE <<JArr([n \in 1..Len(tools) |-> ConvertTool(tools[n])])>>

(***************************************************************************)
(* The model table and the steps of provideLanguageModelChatResponse       *)
(* before the stream: vision routing, image captioning, validation, the    *)
(* token budget and the request body.                                      *)
(***************************************************************************)
ModelInfo(id, contextWindow, maxOutput, supportsVision) ==
  [id |-> id, contextWindow |-> contextWindow, maxOutput |-> maxOutput,
   supportsVision |-> supportsVision]

\* the table of the models
ZAI_MODELS ==
  <<ModelInfo("glm-4.5", 131000, 98000, FALSE),
    ModelInfo("glm-4.5-air", 131000, 98000, FALSE),
    ModelInfo("glm-4.6", 200000, 131000, FALSE),
    ModelInfo("glm-4.7", 200000, 131000, FALSE),
    ModelInfo("glm-4.7-flash", 200000, 131000, FALSE),
    ModelInfo("glm-5", 200000, 131000, FALSE),
    ModelInfo("glm-5-code", 200000, 131000, FALSE)>>

\* the vision model of the earlier table, which a table may keep as an
\* internal model for the vision fallback
InternalVisionModel == ModelInfo("glm-4.6v", 128000, 16000, TRUE)

\* the tables a build of the extension is configured with
ModelTables == {ZAI_MODELS, Append(ZAI_MODELS, InternalVisionModel)}

\* models.find(P), as a sequence of at most one model
Find(models, P(_)) ==
  IF SelectSeq(models, P) = <<>> THEN <<>> ELSE <<SelectSeq(models, P)[1]>>

\* getModelInfo(modelId), as a sequence of at most one model
getModelInfo(models, modelId) == Find(models, LAMBDA m : m.id = modelId)

\* modelInfo?.supportsVision ?? false
modelSupportsVision(models, modelId) ==
  /\ getModelInfo(models, modelId) # <<>>
  /\ getModelInfo(models, modelId)[1].supportsVision

\* the id of the fallback vision model, as a sequence of at most one id
getVisionFallbackModelId(models) ==
  IF Find(models, LAMBDA m : m.id = "glm-4.6v" /\ m.supportsVision) # <<>>
  THEN <<"glm-4.6v">>
  ELSE IF Find(models, LAMBDA m : m.supportsVision) = <<>> THEN <<>>
  ELSE <<Find(models, LAMBDA m : m.supportsVision)[1].id>>

hasImageInput(messages) ==
  \E n \in 1..Len(messages) :
    \E k \in 1..Len(messages[n].content) :
      extractImageData(messages[n].content[k]) # <<>>

\* estimateToolTokens(toolConfig.tools)
estimateToolTokens(tools) ==
  IF tools = <<>> \/ tools[1].items = <<>> THEN 0
  ELSE CeilDiv(Len(JsonStringify(tools[1])), CharsPerToken)

MAX_TOOLS_PER_REQUEST == 128

\* the errors a call ends with
ErrorOf(name, message) == [name |-> name, message |-> message]
NoError == ErrorOf("", "")
CancellationError == ErrorOf("CancellationError", "Canceled")
\* what fetch and a read reject with once the signal is aborted
AbortError == ErrorOf("AbortError", "This operation was aborted")

\* every status gives a plain Error
toPlainError(status, statusText, details) ==
  ErrorOf("Error",
          "Z.ai API error: " \o ToString(status) \o " " \o statusText
            \o (IF details # "" THEN "\n" \o details ELSE ""))

\* toLanguageModelError(status, statusText, details)
toLanguageModelError(status, statusText, details) ==
  ErrorOf(CASE status \in {401, 403} -> "NoPermissions"
            [] status = 404 -> "NotFound"
            [] status = 429 -> "Blocked"
            [] OTHER -> "Error",
          "Z.ai API error: " \o ToString(status) \o " " \o statusText
            \o (IF details # "" THEN "\n" \o details ELSE ""))

\* Math.max(1, contextWindow - maxOutput) of the effective model, or the
\* maxInputTokens of the requested model when the table does not know the
\* effective model (lines 1439-1445)
TokenLimit(info, model) ==
  IF info # <<>>
  THEN IF info[1].contextWindow - info[1].maxOutput > 1
       THEN info[1].contextWindow - info[1].maxOutput ELSE 1
  ELSE IF model.maxInputTokens > 1 THEN model.maxInputTokens ELSE 1

\* a request that is exactly at the limit is over it
OverOrAtLimit(total, limit) == total >= limit

\* the check of line 1447
OverLimit(total, limit) == total > limit

DefaultMaxTokens == 4096

\* Math.min(maxTokensVal, effectiveMaxOutputTokens) without model options
MaxTokens(info, model) ==
  With(IF info # <<>> THEN info[1].maxOutput ELSE model.maxOutputTokens,
       LAMBDA out : IF DefaultMaxTokens < out THEN DefaultMaxTokens ELSE out)

\* the request body of lines 1465-1503 for a request without model options
RequestBody(modelId, zaiMessages, toolConfig, maxTokens, thinking) ==
  [model |-> modelId, messages |-> zaiMessages, stream |-> TRUE,
   max_tokens |-> maxTokens, temperature |-> "0.7",
   thinking |-> IF thinking THEN <<"enabled">> ELSE <<>>,
   tools |-> toolConfig]

\* the body of a call that has not called fetch
NoBody == RequestBody("", <<>>, <<>>, 0, FALSE)

\* typeof v === "number"
IsNumber(v) == v.t = "num"

\* typeof mo?.max_tokens === "number" ? mo.max_tokens : 4096 (line 1459),
\* for a whole number
maxTokensVal(mo) ==
  IF IsNumber(Get(mo, "max_tokens"))
  THEN DecimalValue(Get(mo, "max_tokens").lit, 0)
  ELSE DefaultMaxTokens

\* typeof mo?.temperature === "number" ? mo.temperature : 0.7 (line 1461)
temperatureVal(mo) ==
  IF IsNumber(Get(mo, "temperature")) THEN Get(mo, "temperature")
  ELSE JNum("0.7")

\* an allow-list that copies any stop the caller gives
StopForwarded(mo) ==
  IF Get(mo, "stop").t = "undefined" THEN <<>> ELSE <<Get(mo, "stop")>>

\* the stop of the body (lines 1482-1489): that of the options when it is a
\* string or an array of strings, else none
StopOption(mo) ==
  IF IsString(Get(mo, "stop")) THEN <<Get(mo, "stop")>>
  ELSE IF Get(mo, "stop").t = "arr"
          /\ \A n \in 1..Len(Get(mo, "stop").items) :
                IsString(Get(mo, "stop").items[n])
  THEN <<Get(mo, "stop")>>
  ELSE <<>>

\* a penalty of the body (lines 1490-1495): that of the options when it is
\* a number, else none
PenaltyOption(mo, k) ==
  IF IsNumber(Get(mo, k)) THEN <<Get(mo, k)>> ELSE <<>>

\* the keys and the values of a member that is set only when it has a value
MemberKeys(k, value) == IF value = <<>> THEN <<>> ELSE <<k>>

\* the request body of lines 1465-1496 as the object JSON.stringify is
\* called with, for a request without tools: maxOutput is the
\* effectiveMaxOutputTokens of line 1463
OptionsBody(modelId, zaiMessages, maxOutput, thinking, mo) ==
  JObj(<<"model", "messages", "stream", "max_tokens", "temperature">>
         \o MemberKeys("thinking", IF thinking THEN <<TRUE>> ELSE <<>>)
         \o MemberKeys("stop", StopOption(mo))
         \o MemberKeys("frequency_penalty",
                       PenaltyOption(mo, "frequency_penalty"))
         \o MemberKeys("presence_penalty",
                       PenaltyOption(mo, "presence_penalty")),
       <<JStr(modelId), zaiMessages, JBool(TRUE),
         JNum(ToString(IF maxTokensVal(mo) < maxOutput THEN maxTokensVal(mo)
                       ELSE maxOutput)),
         temperatureVal(mo)>>
         \o (IF thinking THEN <<JObj(<<"type">>, <<JStr("enabled")>>)>>
             ELSE <<>>)
         \o StopOption(mo)
         \o PenaltyOption(mo, "frequency_penalty")
         \o PenaltyOption(mo, "presence_penalty"))

\* the message that takes the place of a message with images (lines
\* 1319-1334): its texts, then the descriptions of its images
CaptionedMessage(textParts, descriptions) ==
  ChatMessage("User",
    [n \in 1..Len(textParts) |-> TextPart(textParts[n])]
      \o (IF descriptions # <<>>
          THEN <<TextPart("\n\n[Image Analysis]:\n"
                          \o Join(descriptions, "\n\n---\n\n"))>>
          ELSE <<>>))

DefaultAnalysisPrompt == "Describe this image in detail."

\* the prompt of the captioning calls of a message (line 1311)
AnalysisPrompt(msg) ==
  With(Join(FlatMap(msg.content, getTextPartValue), " "),
       LAMBDA userPrompt :
         IF userPrompt # "" THEN userPrompt ELSE DefaultAnalysisPrompt)

\* the record of a call followed from its start to its stream; pc is where
\* the call waits: "apiKey" (ensureApiKey), "captioning" (analyzeImage),
\* "fetching" (fetch), "errorText" (response.text), "streaming"
\* (reader.read); log lists the network calls started and the captioning
\* calls returned
FrontIdle(models) ==
  [pc |-> "idle", models |-> models,
   model |-> [id |-> "", maxInputTokens |-> 0, maxOutputTokens |-> 0],
   messages |-> <<>>, tools |-> <<>>,
   effectiveModelId |-> "", processedMessages |-> <<>>,
   m |-> 0, descriptions |-> <<>>,
   log |-> <<>>, body |-> NoBody, error |-> NoError,
   response |-> [status |-> 0, statusText |-> "", text |-> "",
                 read |-> FALSE],
   delivered |-> FALSE]

NetworkCall(call, url, prompt) ==
  [call |-> call, url |-> url, prompt |-> prompt]
ChatCall == NetworkCall("chat", "", "")

\* a catch block that rethrows whatever it caught
RethrowUnchanged(f, err) == [f EXCEPT !.pc = "threw", !.error = err]

\* the catch block of lines 1545-1560: the call ends with a
\* CancellationError when the token is cancelled or the error is an
\* AbortError, else with the error itself
Throw(f, err) ==
  [f EXCEPT !.pc = "threw",
            !.error = IF cancelRequested \/ err.name = "AbortError"
                      THEN CancellationError ELSE err]

\* lines 1512-1524: the check of the token, then fetch is called
SendChat(f, body) ==
  IF cancelRequested THEN Throw(f, CancellationError)
  ELSE [f EXCEPT !.pc = "fetching", !.body = body,
                 !.log = Append(@, ChatCall)]

\* lines 1434-1503: the token budget, then the request body
Budget(f, toolConfig, info) ==
  IF OverLimit(estimateMessagesTokens(f.processedMessages)
                 + estimateToolTokens(toolConfig),
               TokenLimit(info, f.model))
  THEN Throw(f, ErrorOf("Error", "Message exceeds token limit."))
  ELSE SendChat(f, RequestBody(f.effectiveModelId,
                               convertMessages(f.processedMessages),
                               toolConfig, MaxTokens(info, f.model),
                               thinkingEnabled))

\* a request with exactly the maximum of tools has too many
TooManyToolsAtMaximum(tools) == Len(tools) >= MAX_TOOLS_PER_REQUEST

\* the check of line 1422
TooManyTools(tools) == Len(tools) > MAX_TOOLS_PER_REQUEST

\* lines 1422-1455: the limit on the tools, the conversions, validateRequest
\* and the budget
Prepare(f) ==
  IF TooManyTools(f.tools)
  THEN Throw(f, ErrorOf("Error",
                        "Cannot have more than "
                          \o ToString(MAX_TOOLS_PER_REQUEST)
                          \o " tools per request."))
  ELSE IF validateRequest(f.processedMessages) # ""
  THEN Throw(f, ErrorOf("Error", validateRequest(f.processedMessages)))
  ELSE Budget(f, convertTools(f.tools),
              getModelInfo(f.models, f.effectiveModelId))

\* the images of a message
ImagesOf(msg) == FlatMap(msg.content, extractImageData)

\* analyzeImage is called for the image whatever the token says
BeforeImageUnchecked(f, img, prompt) ==
  [f EXCEPT !.pc = "captioning",
            !.log = Append(@, NetworkCall("caption", ImageDataUrl(img),
                                          prompt))]

\* lines 1304-1315: the token is checked, then analyzeImage is called for the
\* image
BeforeImage(f, img, prompt) ==
  IF cancelRequested THEN Throw(f, CancellationError)
  ELSE [f EXCEPT !.pc = "captioning",
                 !.log = Append(@, NetworkCall("caption", ImageDataUrl(img),
                                               prompt))]

RECURSIVE CaptionLoop(_)
\* processImagesForNonVisionModel from the m-th message on, descriptions
\* holding the captions of its images so far, up to its next analyzeImage
\* call; after the last message the call goes on with line 1422
CaptionLoop(f) ==
  IF f.m > Len(f.messages) THEN Prepare(f)
  ELSE IF ImagesOf(f.messages[f.m]) = <<>>
  THEN CaptionLoop([f EXCEPT !.processedMessages = Append(@, f.messages[f.m]),
                             !.m = @ + 1])
  ELSE IF Len(f.descriptions) < Len(ImagesOf(f.messages[f.m]))
  THEN BeforeImage(f, ImagesOf(f.messages[f.m])[Len(f.descriptions) + 1],
                   AnalysisPrompt(f.messages[f.m]))
  ELSE CaptionLoop(
         [f EXCEPT !.processedMessages =
                     Append(@, CaptionedMessage(
                                 FlatMap(f.messages[f.m].content,
                                         getTextPartValue),
                                 f.descriptions)),
                   !.m = @ + 1,
                   !.descriptions = <<>>])

\* no request goes to the fallback vision model
ReroutesNever(fallback, modelId) == FALSE

\* whether the request goes to the fallback vision model (line 1399)
Reroutes(fallback, modelId) == fallback # <<>> /\ fallback[1] # modelId

\* lines 1396-1420 for a request with images and a model without vision
RouteImages(f, fallback) ==
  IF Reroutes(fallback, f.model.id)
  THEN Prepare([f EXCEPT !.effectiveModelId = fallback[1]])
  ELSE CaptionLoop([f EXCEPT !.processedMessages = <<>>, !.m = 1,
                             !.descriptions = <<>>])

\* lines 1392-1420: vision routing
Route(f) ==
  IF hasImageInput(f.messages) /\ ~modelSupportsVision(f.models, f.model.id)
  THEN RouteImages(f, getVisionFallbackModelId(f.models))
  ELSE Prepare(f)

(***************************************************************************)
(* The requests of the host and the answers of the servers.                *)
(***************************************************************************)
RECURSIVE Pad(_)
\* a text of n characters
Pad(n) ==
  IF n <= 0 THEN ""
  ELSE IF n % 2 = 1 THEN "x" \o Pad(n - 1)
  ELSE With(Pad(n \div 2), LAMBDA half : half \o half)

\* the model as provideLanguageModelChatInformation gives it to the host
\* (lines 1182-1194)
HostModel(info) ==
  [id |-> info.id,
   maxInputTokens |-> TokenLimit(<<info>>, info),
   maxOutputTokens |-> info.maxOutput]

\* the models the host asks for, out of those of the table
RequestedModels(models) ==
  {HostModel(models[n]) :
     n \in {k \in 1..Len(models) : models[k].id \in {"glm-4.5", "glm-4.6v"}}}

ToolDefinition(n) ==
  [name |-> "tool" \o ToString(n), description |-> "",
   inputSchema |-> JObj(<<"type">>, <<JStr("object")>>)]

ToolDefinitions(count) == [n \in 1..count |-> ToolDefinition(n)]

ToolCounts == {0, 1, MAX_TOOLS_PER_REQUEST, MAX_TOOLS_PER_REQUEST + 1}

Png == DataPart("image/png", <<137, 80, 78>>)
Jpeg == DataPart("image/jpeg", <<255, 216>>)

MessageLists ==
  {<<>>,
   <<ChatMessage("User", <<TextPart("hi")>>)>>,
   <<ChatMessage("User", <<>>)>>,
   <<ChatMessage("User", <<TextPart("")>>)>>,
   <<ChatMessage("User", <<TextPart("what is this?"), Png>>)>>,
   <<ChatMessage("User", <<TextPart("compare")>>),
     ChatMessage("User", <<Png, Jpeg>>)>>,
   <<ChatMessage("User", <<Png>>), ChatMessage("User", <<>>)>>,
   <<ChatMessage("Assistant",
                 <<ToolCallPart("c1", "lookup", JObj(<<"q">>, <<JStr("x")>>))>>),
     ChatMessage("User", <<ToolResultPart("c1", <<TextPart("42")>>)>>)>>,
   <<ChatMessage("Assistant",
                 <<ToolCallPart("c1", "lookup", JObj(<<"q">>, <<JStr("x")>>))>>),
     ChatMessage("User", <<ToolResultPart("c1", <<TextPart("42")>>), Png>>)>>,
   <<ChatMessage("User", <<TextPart("draw")>>),
     ChatMessage("Assistant", <<TextPart("here"), Jpeg>>)>>}

\* the limits of the models that are asked for or rerouted to
BudgetLimits ==
  {HostModel(ZAI_MODELS[1]).maxInputTokens,
   HostModel(InternalVisionModel).maxInputTokens}

\* one message whose estimate, with that of the tools, is the limit plus
\* over tokens
BudgetMessages(limit, toolCount, image, over) ==
  <<ChatMessage("User",
      <<TextPart(Pad(CharsPerToken
                       * (limit + over
                            - estimateToolTokens(
                                convertTools(ToolDefinitions(toolCount)))
                            - (IF image THEN TokensPerImage ELSE 0))))>>
        \o (IF image THEN <<Png>> ELSE <<>>))>>

Request(model, messages, tools) ==
  [model |-> model, messages |-> messages, tools |-> tools]

Requests(models) ==
  {Request(model, messages, ToolDefinitions(count)) :
     model \in RequestedModels(models), messages \in MessageLists,
     count \in ToolCounts}
  \cup
  {Request(model, BudgetMessages(limit, count, image, over),
           ToolDefinitions(count)) :
     model \in RequestedModels(models), limit \in BudgetLimits,
     count \in {0, 1}, image \in BOOLEAN, over \in {0, 1}}

\* what analyzeImage returns for an image
Captions == {"a cat"}

\* the statuses of the answers of the API, and the texts of its error bodies
Statuses == {200, 401, 403, 404, 429, 500}
StatusText(status) ==
  CASE status = 200 -> "OK"
    [] status = 401 -> "Unauthorized"
    [] status = 403 -> "Forbidden"
    [] status = 404 -> "Not Found"
    [] status = 429 -> "Too Many Requests"
    [] OTHER -> "Internal Server Error"
ErrorTexts == {"", "{\"error\":\"denied\"}"}

\* the streams of a 2xx answer
FrontStreams ==
  {<<ContentFrame("Hi"), DoneFrame>>,
   <<LookupHead, LookupTail, FinishFrame("tool_calls"), DoneFrame>>,
   <<LookupHead, FinishFrame("tool_calls")>>}

(***************************************************************************)
(* The state machine of one call from its start to its end.                *)
(***************************************************************************)
\* the variables a call followed from its start leaves alone
streamOnly ==
  <<pc, wire, scenario, caught, thinkingEnabled, calls, util, mcp>>

FrontInit ==
  /\ provider = [FreshState EXCEPT !.progress = <<>>]
  /\ pc = "idle"
  /\ buffer = ""
  /\ wire = <<>>
  /\ scenario = NoScenario
  /\ caught = <<>>
  /\ cancelRequested = FALSE
  /\ thinkingEnabled = TRUE
  /\ calls = NoCalls
  /\ util = NoUtil
  /\ mcp = NoMcp
  /\ \E models \in ModelTables : front = FrontIdle(models)

\* the host calls provideLanguageModelChatResponse: the parser fields are
\* reset and the call waits for ensureApiKey (lines 1356-1387)
FrontProvide ==
  /\ front.pc = "idle"
  /\ \E req \in Requests(front.models) :
       front' = [FrontIdle(front.models) EXCEPT
                   !.pc = "apiKey",
                   !.model = req.model,
                   !.messages = req.messages,
                   !.tools = req.tools,
                   !.processedMessages = req.messages,
                   !.effectiveModelId = req.model.id]
  /\ provider' = [RequestReset(provider) EXCEPT !.progress = <<>>]
  /\ buffer' = ""
  /\ cancelRequested' = FALSE
  /\ UNCHANGED streamOnly

\* ensureApiKey returns: without a key the call throws NoPermissions, with
\* one it runs up to its next await or to its end (lines 1387-1524)
ApiKeyResolved ==
  /\ front.pc = "apiKey"
  /\ \/ front' = Throw(front, ErrorOf("NoPermissions",
                                       "Z.ai API key not found"))
     \/ front' = Route(front)
  /\ UNCHANGED <<provider, buffer, cancelRequested>>
  /\ UNCHANGED streamOnly

\* analyzeImage returns the description of the image it was called for
CaptionReturns ==
  /\ front.pc = "captioning"
  /\ \E description \in Captions :
       front' = CaptionLoop(
                  [front EXCEPT
                     !.descriptions = Append(@, description),
                     !.log = Append(@, NetworkCall("captionEnd", "", ""))])
  /\ UNCHANGED <<provider, buffer, cancelRequested>>
  /\ UNCHANGED streamOnly

\* analyzeImage throws: the vision API answered with an error (mcp.ts 270-273)
CaptionFails ==
  /\ front.pc = "captioning"
  /\ front' = Throw([front EXCEPT
                       !.log = Append(@, NetworkCall("captionEnd", "", ""))],
                    ErrorOf("Error", "Vision API error: 500 "))
  /\ UNCHANGED <<provider, buffer, cancelRequested>>
  /\ UNCHANGED streamOnly

\* processStreamingResponse is called: a cancelled token ends its loop at
\* once and the finally block runs, else it waits for the first read
StartStream(f) ==
  IF cancelRequested THEN [f EXCEPT !.pc = "returned"]
  ELSE [f EXCEPT !.pc = "streaming"]

\* fetch resolves (lines 1526-1544): a status that is not 2xx makes the call
\* wait for the text of the body; a 2xx answer without a body is an error
FetchResolves ==
  /\ front.pc = "fetching"
  /\ \E status \in Statuses, text \in ErrorTexts, hasBody \in BOOLEAN :
       /\ status = 200 => text = ""
       /\ status # 200 => hasBody
       /\ front' =
            IF status # 200
            THEN [front EXCEPT !.pc = "errorText",
                               !.response = [status |-> status,
                                             statusText |-> StatusText(status),
                                             text |-> text,
                                             read |-> FALSE]]
            ELSE IF ~hasBody
            THEN Throw(front,
                       ErrorOf("Error", "No response body from Z.ai API"))
            ELSE StartStream(front)
       /\ provider' = IF status = 200 /\ hasBody /\ cancelRequested
                      THEN StreamCleanup(provider) ELSE provider
  /\ UNCHANGED <<buffer, cancelRequested>>
  /\ UNCHANGED streamOnly

\* fetch rejects: with an AbortError when the signal was aborted, else with a
\* network error
FetchRejects ==
  /\ front.pc = "fetching"
  /\ front' = Throw(front, IF cancelRequested THEN AbortError
                           ELSE ErrorOf("TypeError", "fetch failed"))
  /\ UNCHANGED <<provider, buffer, cancelRequested>>
  /\ UNCHANGED streamOnly

\* response.text() returns the body of an answer that is not 2xx (lines
\* 1527-1533)
ErrorTextRead ==
  /\ front.pc = "errorText"
  /\ front' = Throw([front EXCEPT !.response.read = TRUE],
                     toLanguageModelError(front.response.status,
                                          front.response.statusText,
                                          front.response.text))
  /\ UNCHANGED <<provider, buffer, cancelRequested>>
  /\ UNCHANGED streamOnly

\* response.text() rejects (line 1527): with an AbortError when the signal
\* was aborted, else with the error of the connection
ErrorTextFails ==
  /\ front.pc = "errorText"
  /\ front' = Throw(front, IF cancelRequested THEN AbortError
                           ELSE ErrorOf("TypeError", "terminated"))
  /\ UNCHANGED <<provider, buffer, cancelRequested>>
  /\ UNCHANGED streamOnly

\* what follows the processing of the chunk of a read, r the result of
\* ReadChunk
FrontAfterChunk(r) ==
  IF r.err # ""
  THEN /\ provider' = StreamCleanup(r.st)
       /\ buffer' = ""
       /\ front' = Throw(front, ErrorOf("Error", r.err))
  ELSE IF cancelRequested
  THEN /\ provider' = StreamCleanup(r.st)
       /\ buffer' = ""
       /\ front' = [front EXCEPT !.pc = "returned"]
  ELSE /\ provider' = r.st
       /\ buffer' = r.buffer
       /\ front' = [front EXCEPT !.delivered = TRUE]

\* a read returns the bytes of the whole answer
FrontRead ==
  /\ front.pc = "streaming"
  /\ ~front.delivered
  /\ \E frames \in FrontStreams :
       FrontAfterChunk(ReadChunk(provider, buffer, WireBytes(frames, 1),
                                 thinkingEnabled))
  /\ UNCHANGED cancelRequested
  /\ UNCHANGED streamOnly

\* a read returns done: the loop ends, the finally block runs, the call
\* returns
FrontEndOfStream ==
  /\ front.pc = "streaming"
  /\ front' = [front EXCEPT !.pc = "returned"]
  /\ provider' = StreamCleanup(provider)
  /\ buffer' = ""
  /\ UNCHANGED cancelRequested
  /\ UNCHANGED streamOnly

\* a read rejects: with an AbortError when the signal was aborted, else with
\* a network error
FrontReadFails ==
  /\ front.pc = "streaming"
  /\ front' = Throw(front, IF cancelRequested THEN AbortError
                           ELSE ErrorOf("TypeError", "terminated"))
  /\ provider' = StreamCleanup(provider)
  /\ buffer' = ""
  /\ UNCHANGED cancelRequested
  /\ UNCHANGED streamOnly

\* the host cancels the token while the call waits
FrontCancel ==
  /\ front.pc \in {"apiKey", "captioning", "fetching", "errorText",
                  "streaming"}
  /\ ~cancelRequested
  /\ cancelRequested' = TRUE
  /\ UNCHANGED <<front, provider, buffer>>
  /\ UNCHANGED streamOnly

\* the host has taken the outcome of the call
FrontSettle ==
  /\ front.pc \in {"returned", "threw"}
  /\ front' = FrontIdle(front.models)
  /\ provider' = [provider EXCEPT !.progress = <<>>]
  /\ cancelRequested' = FALSE
  /\ UNCHANGED buffer
  /\ UNCHANGED streamOnly

FrontNext ==
  \/ FrontProvide
  \/ ApiKeyResolved
  \/ CaptionReturns
  \/ CaptionFails
  \/ FetchResolves
  \/ FetchRejects
  \/ ErrorTextRead
  \/ ErrorTextFails
  \/ FrontRead
  \/ FrontEndOfStream
  \/ FrontReadFails
  \/ FrontCancel
  \/ FrontSettle

FrontSpec == FrontInit /\ [][FrontNext]_vars

(***************************************************************************)
(* Two calls of provideLanguageModelChatResponse on one provider instance  *)
(* that overlap in time.  Each call has its own reader, decode buffer and  *)
(* progress sink; the parser fields are those of the instance.  A call is  *)
(* followed from its entry to the end of its stream, one read per frame;   *)
(* between two reads of a call the other call may take any of its steps.   *)
(***************************************************************************)
CallIds == {"A", "B"}

\* what a call holds itself: where it is, the frames of its response, how
\* many of them it has read, its decode buffer and what its sink received
CallState(cpc, frames, read, buf, progress) ==
  [pc |-> cpc, frames |-> frames, read |-> read, buffer |-> buf,
   progress |-> progress]

IdleCall == CallState("idle", <<>>, 0, "", <<>>)

\* the responses of the overlapping calls
OverlapStreams ==
  {<<LookupHead, LookupTail, FinishFrame("tool_calls"), DoneFrame>>,
   <<ContentFrame("hi"), FinishFrame("stop"), DoneFrame>>,
   <<ReasoningFrame("why"), ContentFrame("so"), DoneFrame>>,
   <<FooStructured, ContentFrame(InlineFoo), DoneFrame>>}

OverlapInit ==
  /\ provider = FreshState
  /\ pc = "idle"
  /\ buffer = ""
  /\ wire = <<>>
  /\ scenario = NoScenario
  /\ caught = <<>>
  /\ cancelRequested = FALSE
  /\ thinkingEnabled = TRUE
  /\ front = NoFront
  /\ util = NoUtil
  /\ mcp = NoMcp
  /\ calls = [c \in CallIds |-> IdleCall]

singleCall ==
  <<pc, buffer, wire, scenario, caught, cancelRequested, thinkingEnabled,
    front, util, mcp>>

\* the host calls provideLanguageModelChatResponse: the parser fields of the
\* instance are reset (lines 1357-1364) and the call goes on to its stream
OverlapProvide(c) ==
  /\ calls[c].pc = "idle"
  /\ \E frames \in OverlapStreams :
       calls' = [calls EXCEPT ![c] = CallState("reading", frames, 0, "", <<>>)]
  /\ provider' = RequestReset(provider)
  /\ UNCHANGED singleCall

\* what follows the processing of a chunk of call c, r the result of
\* ReadChunk on the fields of the instance and the sink of the call
OverlapAfterChunk(c, r) ==
  IF r.err # ""
  THEN /\ provider' = [StreamCleanup(r.st) EXCEPT !.progress = <<>>]
       /\ calls' = [calls EXCEPT ![c].pc = "threw",
                                 ![c].read = @ + 1,
                                 ![c].buffer = "",
                                 ![c].progress = r.st.progress]
  ELSE /\ provider' = [r.st EXCEPT !.progress = <<>>]
       /\ calls' = [calls EXCEPT ![c].read = @ + 1,
                                 ![c].buffer = r.buffer,
                                 ![c].progress = r.st.progress]

\* one pass of the read loop of call c (lines 1635-1676)
OverlapRead(c) ==
  /\ calls[c].pc = "reading"
  /\ calls[c].read < Len(calls[c].frames)
  /\ OverlapAfterChunk(c,
       ReadChunk([provider EXCEPT !.progress = calls[c].progress],
                 calls[c].buffer,
                 WireLine(calls[c].frames[calls[c].read + 1]),
                 thinkingEnabled))
  /\ UNCHANGED singleCall

\* the reader of call c reports done: its finally block clears the parser
\* fields of the instance (lines 1677-1689) and the call returns
OverlapEndOfStream(c) ==
  /\ calls[c].pc = "reading"
  /\ calls[c].read = Len(calls[c].frames)
  /\ provider' = StreamCleanup(provider)
  /\ calls' = [calls EXCEPT ![c].pc = "returned", ![c].buffer = ""]
  /\ UNCHANGED singleCall

\* the host has taken the outcome of call c
OverlapSettle(c) ==
  /\ calls[c].pc \in {"returned", "threw"}
  /\ calls' = [calls EXCEPT ![c] = IdleCall]
  /\ UNCHANGED provider
  /\ UNCHANGED singleCall

OverlapNext ==
  \/ \E c \in CallIds : OverlapProvide(c)
  \/ \E c \in CallIds : OverlapRead(c)
  \/ \E c \in CallIds : OverlapEndOfStream(c)
  \/ \E c \in CallIds : OverlapSettle(c)

OverlapSpec == OverlapInit /\ [][OverlapNext]_vars

(***************************************************************************)
(* The functions of the utilities called on their own: validateRequest,    *)
(* estimateTokens and estimateMessagesTokens.  A call starts with its      *)
(* argument and ends with what it returns or throws.                       *)
(***************************************************************************)
\* the values of a messages argument: null, undefined or an array
NullArg == [t |-> "null"]
UndefinedArg == [t |-> "undefined"]
ArrayArg(items) == [t |-> "array", items |-> items]

\* validateRequest(messages) for any argument: null and undefined are falsy
\* (line 357)
validateRequestOf(arg) ==
  IF arg.t # "array" THEN "Messages array is empty"
  ELSE validateRequest(arg.items)

\* the messages the functions are called with: without a part, with one
\* and with two texts, with a text and an image, with an image and a data
\* part that is no image or has no bytes, with a tool call
UtilMessages ==
  {ChatMessage("User", <<>>),
   ChatMessage("User", <<TextPart("a")>>),
   ChatMessage("User", <<TextPart("a"), TextPart("a")>>),
   ChatMessage("Assistant", <<TextPart("abcde"), TextPart("")>>),
   ChatMessage("User", <<TextPart("abcd"),
                         DataPart("image/png", <<137, 80, 78>>)>>),
   ChatMessage("User", <<DataPart("image/jpeg", <<255, 216>>),
                         DataPart("image/png", <<>>),
                         DataPart("text/plain", <<104, 105>>)>>),
   ChatMessage("Assistant",
               <<ToolCallPart("c1", "lookup", JObj(<<"q">>, <<JStr("x")>>))>>)}

\* the longest list of messages and the longest text
MaxMessages == 3
MaxTextLength == 9

UtilLists == UNION {[1..n -> UtilMessages] : n \in 0..MaxMessages}

UtilTexts == {Pad(n) : n \in 0..MaxTextLength}

UtilCall(op, arg) ==
  [op |-> op, arg |-> arg, done |-> FALSE, result |-> 0, error |-> ""]

\* the values a caller may give an option: none, well typed, mistyped
Absent == <<>>
MaxTokensOptions == {Absent, <<JNum("200000")>>, <<JStr("100")>>}
TemperatureOptions == {Absent, <<JNum("0")>>, <<JStr("hot")>>}
StopOptions ==
  {Absent, <<JStr("END")>>, <<JArr(<<JStr("a"), JStr("b")>>)>>,
   <<JArr(<<JStr("a"), JNum("1")>>)>>, <<JNum("1")>>}
FrequencyOptions == {Absent, <<JNum("1")>>, <<JStr("1")>>}
PresenceOptions == {Absent, <<JBool(TRUE)>>}
\* options the request body has no place for
OtherOptions ==
  {<<<<>>, <<>>>>, <<<<"seed", "model">>, <<JNum("7"), JStr("other")>>>>}

\* options.modelOptions: undefined, or an object with the options given
ModelOptions ==
  {JUndefined}
  \cup
  {JObj(MemberKeys("max_tokens", mt) \o MemberKeys("temperature", te)
          \o MemberKeys("stop", st) \o MemberKeys("frequency_penalty", fp)
          \o MemberKeys("presence_penalty", pp) \o other[1],
        mt \o te \o st \o fp \o pp \o other[2]) :
     mt \in MaxTokensOptions, te \in TemperatureOptions, st \in StopOptions,
     fp \in FrequencyOptions, pp \in PresenceOptions, other \in OtherOptions}

\* the messages of the requests whose options vary, as the API takes them
HiMessages ==
  JArr(<<JObj(<<"role", "content">>, <<JStr("user"), JStr("hi")>>)>>)

\* the body of a request for the first model of the table with options mo
BodyOf(mo) ==
  OptionsBody(ZAI_MODELS[1].id, HiMessages, ZAI_MODELS[1].maxOutput,
              thinkingEnabled, mo)

\* the second argument of provideTokenCount: a string or a message
StringArg(text) == [type |-> "string", text |-> text]
MessageArg(message) == [type |-> "object", message |-> message]

\* a count that passes over the images
CountOfText(part) ==
  IF getTextPartValue(part) # <<>>
  THEN CeilDiv(Len(getTextPartValue(part)[1]), 4)
  ELSE 0

\* what a part adds to the count of a message (types.ts 1583-1593)
CountOfPart(part) ==
  IF getTextPartValue(part) # <<>>
  THEN CeilDiv(Len(getTextPartValue(part)[1]), 4)
  ELSE IF extractImageData(part) # <<>> THEN 1500
  ELSE 0

\* provideTokenCount(model, text, token) (types.ts 1573-1596)
provideTokenCount(text) ==
  IF text.type = "string" THEN CeilDiv(Len(text.text), 4)
  ELSE Sum([n \in 1..Len(text.message.content) |->
              CountOfPart(text.message.content[n])])

UtilCalls ==
  {UtilCall("validateRequest", arg) :
     arg \in {NullArg, UndefinedArg} \cup {ArrayArg(l) : l \in UtilLists}}
  \cup {UtilCall("estimateTokens", text) : text \in UtilTexts}
  \cup {UtilCall("estimateMessagesTokens", l) : l \in UtilLists}
  \cup {UtilCall("requestBody", mo) : mo \in ModelOptions}
  \cup {UtilCall("provideTokenCount", StringArg(text)) : text \in UtilTexts}
  \cup {UtilCall("provideTokenCount", MessageArg(m)) : m \in UtilMessages}

UtilInit ==
  /\ provider = FreshState
  /\ pc = "idle"
  /\ buffer = ""
  /\ wire = <<>>
  /\ scenario = NoScenario
  /\ caught = <<>>
  /\ cancelRequested = FALSE
  /\ thinkingEnabled = TRUE
  /\ front = NoFront
  /\ calls = NoCalls
  /\ mcp = NoMcp
  /\ util \in UtilCalls

notUtil ==
  <<provider, pc, buffer, wire, scenario, caught, cancelRequested,
    thinkingEnabled, front, calls, mcp>>

\* validateRequest runs: it returns, or throws an Error with a message
CallValidateRequest ==
  /\ util.op = "validateRequest"
  /\ ~util.done
  /\ util' = [util EXCEPT !.done = TRUE,
                          !.error = validateRequestOf(util.arg)]
  /\ UNCHANGED notUtil

\* estimateTokens runs
CallEstimateTokens ==
  /\ util.op = "estimateTokens"
  /\ ~util.done
  /\ util' = [util EXCEPT !.done = TRUE, !.result = estimateTokens(util.arg)]
  /\ UNCHANGED notUtil

\* estimateMessagesTokens runs
CallEstimateMessagesTokens ==
  /\ util.op = "estimateMessagesTokens"
  /\ ~util.done
  /\ util' = [util EXCEPT !.done = TRUE,
                          !.result = estimateMessagesTokens(util.arg)]
  /\ UNCHANGED notUtil

\* provideLanguageModelChatResponse builds the body of its request (lines
\* 1457-1496)
BuildRequestBody ==
  /\ util.op = "requestBody"
  /\ ~util.done
  /\ util' = [util EXCEPT !.done = TRUE, !.result = BodyOf(util.arg)]
  /\ UNCHANGED notUtil

\* the host asks the provider for the count of a string or of a message
CallProvideTokenCount ==
  /\ util.op = "provideTokenCount"
  /\ ~util.done
  /\ util' = [util EXCEPT !.done = TRUE,
                          !.result = provideTokenCount(util.arg)]
  /\ UNCHANGED notUtil

UtilNext ==
  \/ CallValidateRequest
  \/ CallEstimateTokens
  \/ CallEstimateMessagesTokens
  \/ BuildRequestBody
  \/ CallProvideTokenCount

UtilSpec == UtilInit /\ [][UtilNext]_vars

(***************************************************************************)
(* The MCP client (mcp.ts): its cached API key, the secret storage it      *)
(* reads the key from, and up to two of its operations in flight.  The     *)
(* user stores and clears the key with the zai.manage command.  found and  *)
(* readAfterFound record the history: whether ensureApiKey has ever cached *)
(* a non-empty key, and whether a read of the storage was started after    *)
(* that.                                                                   *)
(***************************************************************************)
McpSlots == {"first", "second"}

StoredKey == "sk-1"

\* ZAI_MCP_SERVERS: the names of the servers, all of type http with a url
ZAI_MCP_SERVERS == {"web-search-prime", "web-reader", "zread", "vision-mcp"}

\* an operation of the client: pc is where it waits ("reading" the storage,
\* "importing" the table of the servers, "fetching"), bearer the key of the
\* Authorization header of its network call
McpOp(opc, kind, server, bearer, fetched, error) ==
  [pc |-> opc, kind |-> kind, server |-> server, bearer |-> bearer,
   fetched |-> fetched, error |-> error]

IdleOp == McpOp("idle", "", "", "", FALSE, "")

McpKinds == {"callTool", "listTools", "analyzeImage"}
McpServerNames == {"vision-mcp", "unknown-server"}

\* new ZaiMcpClient(secrets) (lines 27-29), the storage with or without a key
McpInit ==
  /\ provider = FreshState
  /\ pc = "idle"
  /\ buffer = ""
  /\ wire = <<>>
  /\ scenario = NoScenario
  /\ caught = <<>>
  /\ cancelRequested = FALSE
  /\ thinkingEnabled = TRUE
  /\ front = NoFront
  /\ calls = NoCalls
  /\ util = NoUtil
  /\ \E stored \in {"", StoredKey} :
       mcp = [storage |-> stored, apiKey |-> "", found |-> FALSE,
              readAfterFound |-> FALSE,
              ops |-> [s \in McpSlots |-> IdleOp]]

notMcp ==
  <<provider, pc, buffer, wire, scenario, caught, cancelRequested,
    thinkingEnabled, front, calls, util>>

\* the user saves a key or clears it (zai.manage)
StoreKey ==
  /\ mcp.storage = ""
  /\ mcp' = [mcp EXCEPT !.storage = StoredKey]
  /\ UNCHANGED notMcp

DeleteKey ==
  /\ mcp.storage # ""
  /\ mcp' = [mcp EXCEPT !.storage = ""]
  /\ UNCHANGED notMcp

\* ensureApiKey reads the storage when no key is cached (line 35)
ensureApiKeyReads(key) == key = ""

\* callTool, listTools or analyzeImage is called: ensureApiKey starts a read
\* of the storage, or finds the cached key and the operation goes on to
\* import the table of the servers
McpStart(s) ==
  /\ mcp.ops[s].pc = "idle"
  /\ \E kind \in McpKinds, server \in McpServerNames :
       /\ kind = "analyzeImage" => server = "vision-mcp"
       /\ mcp' =
            IF ensureApiKeyReads(mcp.apiKey)
            THEN [mcp EXCEPT
                    !.ops[s] = McpOp("reading", kind, server, "", FALSE, ""),
                    !.readAfterFound = @ \/ mcp.found]
            ELSE [mcp EXCEPT
                    !.ops[s] = McpOp("importing", kind, server, "", FALSE, "")]
  /\ UNCHANGED notMcp

\* secrets.get answers: the key, or "" for none, is cached (line 36); without
\* a key the operation throws (lines 52-54, 110-112, 237-239)
McpKeyRead(s) ==
  /\ mcp.ops[s].pc = "reading"
  /\ mcp' =
       IF mcp.storage = ""
       THEN [mcp EXCEPT !.apiKey = "",
                        !.ops[s].pc = "threw",
                        !.ops[s].error = "Z.ai API key not found"]
       ELSE [mcp EXCEPT !.apiKey = mcp.storage,
                        !.found = TRUE,
                        !.ops[s].pc = "importing"]
  /\ UNCHANGED notMcp

\* the table of the servers is imported: an unknown server makes the
\* operation throw, else fetch is called with the cached key as bearer
McpImported(s) ==
  /\ mcp.ops[s].pc = "importing"
  /\ mcp' =
       IF mcp.ops[s].server \notin ZAI_MCP_SERVERS
       THEN [mcp EXCEPT !.ops[s].pc = "threw",
                        !.ops[s].error = "Unknown MCP server: "
                                           \o mcp.ops[s].server]
       ELSE [mcp EXCEPT !.ops[s].pc = "fetching",
                        !.ops[s].fetched = TRUE,
                        !.ops[s].bearer = mcp.apiKey]
  /\ UNCHANGED notMcp

\* the answer of the server: the operation returns, or throws on a status
\* that is not 2xx
McpFetchResolves(s) ==
  /\ mcp.ops[s].pc = "fetching"
  /\ \E ok \in BOOLEAN :
       mcp' = IF ok THEN [mcp EXCEPT !.ops[s].pc = "returned"]
              ELSE [mcp EXCEPT !.ops[s].pc = "threw",
                               !.ops[s].error = "request failed"]
  /\ UNCHANGED notMcp

\* the caller has taken the outcome of the operation
McpSettle(s) ==
  /\ mcp.ops[s].pc \in {"returned", "threw"}
  /\ mcp' = [mcp EXCEPT !.ops[s] = IdleOp]
  /\ UNCHANGED notMcp

McpNext ==
  \/ StoreKey
  \/ DeleteKey
  \/ \E s \in McpSlots : McpStart(s)
  \/ \E s \in McpSlots : McpKeyRead(s)
  \/ \E s \in McpSlots : McpImported(s)
  \/ \E s \in McpSlots : McpFetchResolves(s)
  \/ \E s \in McpSlots : McpSettle(s)

McpSpec == McpInit /\ [][McpNext]_vars

(***************************************************************************)
(* Properties of the streaming contract.                                   *)
(***************************************************************************)
\* the request waits in its read loop and every chunk delivered so far has
\* been processed
Quiet == pc = "reading" /\ wire = <<>>

\* the tool-call events and the text events the sink has received
ToolCalls == PartsOfKind(provider.progress, "toolCall")
Texts == PartsOfKind(provider.progress, "text")

Occurs(frames, f) == \E n \in 1..Len(frames) : frames[n] = f

RECURSIVE ConcatTexts(_, _)
\* the texts of the frames from the n-th on, concatenated
ConcatTexts(frames, n) ==
  IF n > Len(frames) THEN ""
  ELSE frames[n].text \o ConcatTexts(frames, n + 1)

RECURSIVE ConcatArgs(_, _)
\* the argument fragments of the tool frames from the n-th on, concatenated
ConcatArgs(frames, n) ==
  IF n > Len(frames) THEN ""
  ELSE frames[n].args \o ConcatArgs(frames, n + 1)

FooInput == JObj(<<"a">>, <<JNum("1")>>)
LookupInput == JObj(<<"q">>, <<JStr("x")>>)

\* C1: when the call foo {a:1} has arrived both as a structured delta and as
\* inline control-token text, in either order and with or without a stream
\* index in the inline header, the sink holds exactly one tool-call event
\* with that name and argument object
C1_OneEventForBothEncodings ==
  (/\ Quiet
   /\ scenario.family = "dedup"
   /\ Len(scenario.frames) = 2
   /\ Occurs(scenario.frames, FooStructured)
   /\ \/ Occurs(scenario.frames, ContentFrame(InlineFoo))
      \/ Occurs(scenario.frames, ContentFrame(InlineFooIndexed)))
  => Len(SelectSeq(ToolCalls,
                   LAMBDA p : p.name = "foo" /\ p.input = FooInput)) = 1

\* C2: when the inline sequence for foo {a:1} has reached processTextContent
\* as two answer-text fragments cut at any offset, the sink holds exactly one
\* tool-call event foo {a:1} and no text event
C2_SplitInlineCall ==
  (Quiet /\ scenario.family = "inlineSplit" /\ Len(scenario.frames) = 2)
  => /\ Len(provider.progress) = 1
     /\ provider.progress[1].kind = "toolCall"
     /\ provider.progress[1].name = "foo"
     /\ provider.progress[1].input = FooInput

\* processStreamingResponse fed all the bytes of the frames in a single read
SingleRead(frames) ==
  ReadChunk(FreshState, "", WireBytes(frames, 1), thinkingEnabled)

\* the sink, the parser and the decode buffer are as r, a result of
\* ReadChunk, leaves them
SameOutcome(r) ==
  /\ provider.progress = r.st.progress
  /\ provider = r.st
  /\ buffer = r.buffer

\* C3: when the bytes of a stream have arrived in two reads, cut at any
\* offset, the sink holds the same events in the same order (and the parser
\* is in the same state) as when they arrive in a single read
C3_SplitReadsEquivalent ==
  (Quiet /\ scenario.family = "cut") => SameOutcome(SingleRead(scenario.frames))

\* two reads cut inside a line, after which events have been reported
C3_Witness ==
  /\ Quiet
  /\ scenario.family = "cut"
  /\ scenario.cut > 0
  /\ ~EndsWith(Slice(WireBytes(scenario.frames, 1), 0, scenario.cut), "\n")
  /\ ToolCalls # <<>>
  /\ Texts # <<>>

\* the answer-text events of the content frames, one per frame
AnswerParts(frames) ==
  [n \in 1..Len(FramesOfKind(frames, "content")) |->
     TextPart(FramesOfKind(frames, "content")[n].text)]

\* C4: with thinking enabled, in a stream of reasoning deltas followed by
\* content deltas (and then [DONE]), the first event is one reasoning block
\* with the complete header that holds all the reasoning text, and every
\* later event is the answer text of one content delta: nothing of the
\* reasoning comes after answer text; before the first content delta nothing
\* is reported
C4_ReasoningBeforeAnswer ==
  (Quiet /\ scenario.family = "reasoning" /\ thinkingEnabled)
  => IF FramesOfKind(scenario.frames, "content") = <<>>
     THEN provider.progress = <<>>
     ELSE /\ provider.progress =
               <<TextPart(formatReasoningContent(
                   ConcatTexts(FramesOfKind(scenario.frames, "reasoning"), 1),
                   TRUE))>>
                 \o AnswerParts(scenario.frames)
          /\ StartsWith(provider.progress[1].value, ThinkingHeader(TRUE))
          /\ provider.reasoningContentBuffer = ""

\* two reasoning deltas, two content deltas and [DONE] have been processed
C4_Witness ==
  /\ Quiet
  /\ scenario.family = "reasoning"
  /\ thinkingEnabled
  /\ Len(scenario.frames) = 5
  /\ scenario.frames[5] = DoneFrame
  /\ Len(FramesOfKind(scenario.frames, "reasoning")) = 2
  /\ Len(provider.progress) = 3

\* C5: a request in which the flush at a finish reason found a buffer whose
\* arguments are not valid JSON does not complete successfully
C5_InvalidAtFinishFails ==
  (pc = "returned" /\ ~cancelRequested)
  => \A n \in 1..Len(caught) : caught[n] # InvalidJsonError

\* the buffers whose accumulated arguments parse, in insertion order
ValidBuffers(bufs) ==
  SelectSeq(bufs, LAMBDA b : tryParseJSONObject(b.args).ok)

\* the tool-call event a flush reports for a buffer
FlushedPart(b) ==
  ToolCallPart(IF b.id.t = "undefined" THEN "call_" \o RandomSuffix
               ELSE b.id.s,
               IF b.name.t = "undefined" THEN "unknown_tool" ELSE b.name.s,
               tryParseJSONObject(b.args).val)

\* the pass of the read loop that processes the [DONE] line of a stream of
\* structured deltas
DoneStep ==
  /\ pc = "reading"
  /\ ~cancelRequested
  /\ scenario.family = "structured"
  /\ wire # <<>>
  /\ Head(wire) = WireLine(DoneFrame)
  /\ wire' = Tail(wire)

\* C6: processing [DONE] raises no error whatever the buffers hold; it
\* reports one tool-call event for each buffer whose arguments are valid
\* JSON and nothing for the others, which stay in the map
C6_DoneFlushDropsInvalid ==
  [][DoneStep =>
       /\ pc' = "reading"
       /\ caught' = caught
       /\ provider'.progress =
            provider.progress
              \o [n \in 1..Len(ValidBuffers(provider.toolCallBuffers)) |->
                    FlushedPart(ValidBuffers(provider.toolCallBuffers)[n])]
       /\ provider'.toolCallBuffers =
            SelectSeq(provider.toolCallBuffers,
                      LAMBDA b : ~tryParseJSONObject(b.args).ok)]_vars

\* [DONE] met one buffer with invalid arguments and one with valid ones
C6_Witness ==
  /\ Quiet
  /\ scenario.family = "structured"
  /\ scenario.frames = <<LookupHead, Unnamed, DoneFrame>>
  /\ caught = <<>>
  /\ provider.progress =
       <<ToolCallPart("call_" \o RandomSuffix, "unknown_tool",
                      JObj(<<>>, <<>>))>>
  /\ Len(provider.toolCallBuffers) = 1
  /\ provider.toolCallBuffers[1].args = "{\"q\":"

\* C7: answer text, a structured call whose first delta carries id and name
\* and whose arguments follow in fragments, then finish_reason tool_calls:
\* the sink holds the text, one single-space text and one tool call with the
\* id, the name and the parsed arguments, in that order and nothing else
C7_TextHintToolCall ==
  (Quiet /\ scenario.family = "roundTrip" /\ Len(scenario.frames) = 5)
  => provider.progress =
       <<TextPart(scenario.frames[1].text), TextPart(" "),
         ToolCallPart("c1", "lookup", LookupInput)>>

\* the arguments came in two non-empty fragments
C7_Witness ==
  /\ Quiet
  /\ scenario.family = "roundTrip"
  /\ Len(scenario.frames) = 5
  /\ scenario.frames[1].text = "Let me check "
  /\ scenario.frames[3].args = "{\"q\""
  /\ Len(provider.progress) = 3
  /\ caught = <<>>

\* the argument objects that the argument texts of the streams parse to
ParsedInputs ==
  {tryParseJSONObject(t).val : t \in {LookupArgs, FooArgs, "{}"}}

\* C8: every tool-call event carries the parse of a whole argument text; a
\* structured call is reported exactly when the fragments accumulated so far
\* parse, and until then its buffer holds them; an active inline call whose
\* arguments do not parse has reported nothing
C8_ArgumentsParsedWhole ==
  /\ \A n \in 1..Len(ToolCalls) : ToolCalls[n].input \in ParsedInputs
  /\ (Quiet /\ scenario.family = "roundTrip" /\ Len(scenario.frames) \in 2..4)
     => IF tryParseJSONObject(ConcatArgs(scenario.frames, 2)).ok
        THEN /\ ToolCalls =
                  <<ToolCallPart("c1", "lookup",
                       tryParseJSONObject(ConcatArgs(scenario.frames, 2)).val)>>
             /\ provider.toolCallBuffers = <<>>
        ELSE /\ ToolCalls = <<>>
             /\ provider.toolCallBuffers =
                  <<[idx |-> 0, id |-> JStr("c1"), name |-> JStr("lookup"),
                     args |-> ConcatArgs(scenario.frames, 2)]>>
  /\ (/\ pc = "reading"
      /\ scenario.family = "inlineSplit"
      /\ provider.textToolActive.active
      /\ ~tryParseJSONObject(provider.textToolActive.argBuffer).ok)
     => ToolCalls = <<>>

\* a buffer that was held while its text did not parse has been reported
\* once the second fragment completed it
C8_Witness ==
  /\ Quiet
  /\ scenario.family = "roundTrip"
  /\ Len(scenario.frames) = 4
  /\ scenario.frames[3].args = "{\"q\""
  /\ ToolCalls = <<ToolCallPart("c1", "lookup", LookupInput)>>

\* C9: a stream index whose tool call has been reported has no buffer, and
\* each stream index has at most one tool-call event: the events of the
\* structured path are as many as the completed indices (index 0 carries the
\* id c1, index 1 has no name)
C9_CompletedIndexIgnored ==
  pc = "reading"
  => /\ \A n \in 1..Len(provider.toolCallBuffers) :
          provider.toolCallBuffers[n].idx \notin
            provider.completedToolCallIndices
     /\ Len(SelectSeq(ToolCalls, LAMBDA p : p.callId = "c1")) <= 1
     /\ Len(SelectSeq(ToolCalls, LAMBDA p : p.name = "unknown_tool")) <= 1
     /\ Len(SelectSeq(ToolCalls,
                      LAMBDA p : p.callId \in {"c1", "call_" \o RandomSuffix}))
          = Cardinality(provider.completedToolCallIndices)

\* the call of index 0 was reported and a further delta for index 0 arrived
C9_Witness ==
  /\ Quiet
  /\ scenario.family = "structured"
  /\ scenario.frames = <<LookupHead, LookupTail, LookupHead>>
  /\ ToolCalls = <<ToolCallPart("c1", "lookup", LookupInput)>>
  /\ provider.toolCallBuffers = <<>>

\* every field of the streaming state is empty
ParserStateEmpty(st) ==
  /\ st.toolCallBuffers = <<>>
  /\ st.completedToolCallIndices = {}
  /\ st.emittedTextToolCallKeys = {}
  /\ st.emittedTextToolCallIds = {}
  /\ st.textToolActive = NoActive
  /\ st.textToolParserBuffer = ""
  /\ ~st.hasEmittedAssistantText
  /\ ~st.emittedBeginToolCallsHint
  /\ ~st.hasEmittedThinkingContent
  /\ st.reasoningContentBuffer = ""

\* C10: whenever no call of provideLanguageModelChatResponse is running -
\* the last one returned, threw or was cancelled - the streaming state of the
\* instance is empty
C10_NoStateSurvives ==
  pc \in Finished \cup {"idle"} => ParserStateEmpty(provider)

\* a request that reported text and a tool call has ended with an error
C10_Witness ==
  /\ pc = "threw"
  /\ ToolCalls # <<>>
  /\ Texts # <<>>
  /\ ParserStateEmpty(provider)

Skipped(f) ==
  /\ f.k = "raw"
  /\ \/ ~StartsWith(f.line, "data: ")
     \/ /\ SliceFrom(f.line, 6) # "[DONE]"
        /\ ~JsonParse(SliceFrom(f.line, 6)).ok

MalformedData(f) == Skipped(f) /\ StartsWith(f.line, "data: ")

WithoutSkipped(frames) == SelectSeq(frames, LAMBDA f : ~Skipped(f))

\* C18: a "data: " line whose payload is not valid JSON, and a line that does
\* not start with "data: ", produce no event and do not end the call: once the
\* stream has been read the sink and the parser are as they are after the same
\* stream without those lines, and the only errors met are the SyntaxErrors
\* the loop swallowed, one per malformed payload
C18_MalformedFrameSkipped ==
  (/\ Quiet
   /\ scenario.family = "cut"
   /\ \E n \in 1..Len(scenario.frames) : Skipped(scenario.frames[n])) =>
    /\ SameOutcome(SingleRead(WithoutSkipped(scenario.frames)))
    /\ caught = [n \in 1..Len(SelectSeq(scenario.frames, MalformedData)) |->
                   "SyntaxError"]

\* a stream with a comment line and with a malformed payload between the two
\* fragments of a tool call has been read, and the call was reported
C18_Witness ==
  /\ Quiet
  /\ scenario.family = "cut"
  /\ \E n \in 1..Len(scenario.frames) : MalformedData(scenario.frames[n])
  /\ \E n \in 1..Len(scenario.frames) :
       Skipped(scenario.frames[n]) /\ ~MalformedData(scenario.frames[n])
  /\ caught = <<"SyntaxError">>
  /\ ToolCalls = <<ToolCallPart("c1", "lookup", LookupInput)>>

(***************************************************************************)
(* Properties of a call before its stream.                                 *)
(***************************************************************************)
\* the network calls of a kind the call has started
CallsOfKind(kind) == SelectSeq(front.log, LAMBDA c : c.call = kind)

\* C19: no message converted by convertMessages has the empty string as its
\* content: in the body of every chat request sent, a message whose content
\* is a string has a non-empty one
C19_ContentNeverEmpty ==
  \A n \in 1..Len(front.body.messages) :
    front.body.messages[n].content.t = "str" =>
      front.body.messages[n].content.s # ""

\* the captioning calls started and returned, in the order of the log
CaptionEvents ==
  SelectSeq(front.log, LAMBDA c : c.call \in {"caption", "captionEnd"})

\* every captioning call but the first starts after the one before it has
\* returned
OneCaptionAtATime ==
  \A n \in 1..Len(CaptionEvents) :
    CaptionEvents[n].call = IF n % 2 = 1 THEN "caption" ELSE "captionEnd"

\* a captioning call returns while the token is cancelled
ReturnsCancelled ==
  /\ front.pc = "captioning"
  /\ cancelRequested
  /\ front'.log # front.log

\* C13: the images are captioned one after another, a captioning call
\* starting only when the one before it has returned; and when a captioning
\* call returns with the token cancelled, no other captioning call is
\* started, no chat request is sent and the call ends with a
\* CancellationError
C13_CaptioningSequentialAndCancellable ==
  /\ []OneCaptionAtATime
  /\ [][ReturnsCancelled =>
          /\ front'.pc = "threw"
          /\ front'.error = CancellationError
          /\ CallsOfKind("caption")' = CallsOfKind("caption")
          /\ CallsOfKind("chat")' = <<>>]_vars

\* the token was cancelled while the first of two images was captioned: the
\* call has ended with a CancellationError after one captioning call
C13_Witness ==
  /\ front.pc = "threw"
  /\ front.error = CancellationError
  /\ front.descriptions = <<"a cat">>
  /\ Len(ImagesOf(front.messages[front.m])) = 2
  /\ Len(CallsOfKind("caption")) = 1
  /\ CallsOfKind("chat") = <<>>

\* the messages of the errors of validation
ValidationErrors ==
  {"Messages array is empty", "Message has no content",
   "Cannot have more than " \o ToString(MAX_TOOLS_PER_REQUEST)
     \o " tools per request.",
   "Message exceeds token limit."}

\* C14: when a call ends with an error of validation (no message, a message
\* without content parts, too many tools, tokens over the budget), it has
\* started no network call: no chat request and no captioning call
C14_ValidationBeforeNetwork ==
  (front.pc = "threw" /\ front.error.message \in ValidationErrors) =>
    front.log = <<>>

\* the estimate of the request: that of the messages as they are sent, plus
\* a quarter, rounded up, of the length of the JSON text of the tool array,
\* nothing when the request has no tools
EstimatedTotal ==
  estimateMessagesTokens(front.processedMessages)
    + (IF front.tools = <<>> THEN 0
       ELSE CeilDiv(Len(JsonStringify(convertTools(front.tools)[1])), 4))

\* max(1, contextWindow - maxOutput) of the effective model
EffectiveLimit ==
  With(getModelInfo(front.models, front.effectiveModelId)[1],
       LAMBDA info :
         IF info.contextWindow - info.maxOutput >= 1
         THEN info.contextWindow - info.maxOutput ELSE 1)

\* C15: a call ends with 'Message exceeds token limit.' only when the
\* estimate of its messages and tools is above max(1, contextWindow -
\* maxOutput) of the effective model, and a chat request is sent only when
\* the estimate is at or below that limit
C15_BudgetRejectsExactlyAboveLimit ==
  /\ (front.pc = "threw"
        /\ front.error.message = "Message exceeds token limit.") =>
       EstimatedTotal > EffectiveLimit
  /\ CallsOfKind("chat") # <<>> => EstimatedTotal <= EffectiveLimit

\* a request with an image and a tool, rerouted to the vision model, whose
\* estimate is exactly the limit of that model and above the limit of the
\* model asked for, has been sent
C15_Witness ==
  /\ front.pc = "fetching"
  /\ front.effectiveModelId # front.model.id
  /\ front.tools # <<>>
  /\ EstimatedTotal = EffectiveLimit
  /\ EstimatedTotal > front.model.maxInputTokens

TooManyToolsError ==
  "Cannot have more than " \o ToString(MAX_TOOLS_PER_REQUEST)
    \o " tools per request."

\* the n-th entry of the tools of the body is the n-th tool of the request
AttachedTool(n) ==
  With(Get(front.body.tools[1].items[n], "function"), LAMBDA fn :
    /\ Get(fn, "name") = JStr(front.tools[n].name)
    /\ Get(fn, "description") = JStr(front.tools[n].description)
    /\ Get(fn, "parameters") = front.tools[n].inputSchema)

\* C16: a call with more than 128 tools never sends a chat request, the
\* error about the number of tools is thrown only for more than 128 tools,
\* and the body of a chat request sent holds every tool of the request, in
\* order
C16_ToolLimit ==
  /\ Len(front.tools) > 128 =>
       /\ CallsOfKind("chat") = <<>>
       /\ front.pc \in {"apiKey", "captioning", "threw"}
  /\ (front.pc = "threw" /\ front.error.message = TooManyToolsError) =>
       Len(front.tools) > 128
  /\ (CallsOfKind("chat") # <<>> /\ front.tools # <<>>) =>
       /\ Len(front.body.tools) = 1
       /\ Len(front.body.tools[1].items) = Len(front.tools)
       /\ \A n \in 1..Len(front.tools) : AttachedTool(n)
  /\ (CallsOfKind("chat") # <<>> /\ front.tools = <<>>) =>
       front.body.tools = <<>>

\* a chat request with 128 tools has been sent
C16_Witness ==
  /\ front.pc = "fetching"
  /\ Len(front.tools) = 128
  /\ Len(front.body.tools[1].items) = 128
  /\ AttachedTool(128)

\* the message of the error of an answer that is not 2xx
StatusMessage(r) ==
  "Z.ai API error: " \o ToString(r.status) \o " " \o r.statusText
    \o (IF r.text = "" THEN "" ELSE "\n" \o r.text)

\* C17: once the chat request was answered with a status that is not 2xx,
\* the call only waits for the text of the body and then fails: one chat
\* request was sent and no further one follows, no frame is processed and
\* nothing is reported; with the text read and the token not cancelled the
\* error is NoPermissions for 401 and 403, NotFound for 404, Blocked for
\* 429 and a plain Error otherwise, its message carrying the status and the
\* text; under a cancelled token the error is a CancellationError
C17_NonOkResponseFails ==
  front.response.status # 0 =>
    /\ front.response.status \notin 200..299
    /\ front.pc \in {"errorText", "threw"}
    /\ Len(CallsOfKind("chat")) = 1
    /\ provider.progress = <<>>
    /\ ~front.delivered
    /\ (front.pc = "threw" /\ cancelRequested) =>
         front.error = CancellationError
    /\ (front.pc = "threw" /\ ~cancelRequested /\ front.response.read) =>
         /\ front.error.name =
              CASE front.response.status \in {401, 403} -> "NoPermissions"
                [] front.response.status = 404 -> "NotFound"
                [] front.response.status = 429 -> "Blocked"
                [] OTHER -> "Error"
         /\ front.error.message = StatusMessage(front.response)

\* a call failed with Blocked after a 429 whose body had a text
C17_Witness ==
  /\ front.pc = "threw"
  /\ ~cancelRequested
  /\ front.response.status = 429
  /\ front.response.read
  /\ front.response.text # ""
  /\ front.error.name = "Blocked"
  /\ front.error.message = StatusMessage(front.response)

\* the request of the call has an image part
ImagePresent ==
  \E n \in 1..Len(front.messages) : ImagesOf(front.messages[n]) # <<>>

\* the ids of the models of the table that support vision
VisionIds ==
  {front.models[n].id :
     n \in {k \in 1..Len(front.models) : front.models[k].supportsVision}}

\* the chat request of the call is for model id and carries the messages
SentAs(id, messages) ==
  /\ front.body.model = id
  /\ front.body.messages = convertMessages(messages)
  /\ front.effectiveModelId = id
  /\ front.processedMessages = messages

\* the text that stands for count images described by caption
CaptionText(count, caption) ==
  "\n\n[Image Analysis]:\n"
    \o Join([i \in 1..count |-> caption], "\n\n---\n\n")

\* the n-th processed message is the n-th message with its image parts
\* replaced by the text of their captions
Captioned(n) ==
  With(front.processedMessages[n].content, LAMBDA c :
    /\ \A k \in 1..Len(c) : c[k].kind = "text"
    /\ [k \in 1..(Len(c) - 1) |-> c[k].value]
         = FlatMap(front.messages[n].content, getTextPartValue)
    /\ \E caption \in Captions :
         c[Len(c)].value
           = CaptionText(Len(ImagesOf(front.messages[n])), caption))

RECURSIVE AloneAfter(_, _)
\* what a call that runs alone on a new instance has reported, and whether
\* it has thrown, after the first n frames of its response
AloneAfter(frames, n) ==
  IF n = 0 THEN [st |-> FreshState, buffer |-> "", err |-> ""]
  ELSE With(AloneAfter(frames, n - 1), LAMBDA before :
         IF before.err # "" THEN before
         ELSE With(ReadChunk(before.st, before.buffer, WireLine(frames[n]),
                             thinkingEnabled),
                   LAMBDA r : [st |-> r.st, buffer |-> r.buffer,
                               err |-> r.err]))

\* C11: whatever the other call does in between, a call has reported after
\* each of its reads exactly what it reports when it runs alone, and it
\* throws exactly when it throws alone
C11_OverlappingCallsIndependent ==
  \A c \in DOMAIN calls :
    calls[c].pc # "idle" =>
      /\ calls[c].progress
           = AloneAfter(calls[c].frames, calls[c].read).st.progress
      /\ (calls[c].pc = "threw")
           = (AloneAfter(calls[c].frames, calls[c].read).err # "")

(***************************************************************************)
(* Properties of the functions of the utilities.                           *)
(***************************************************************************)
\* a validateRequest call has ended
Validated == util.op = "validateRequest" /\ util.done

\* C21: validateRequest throws 'Messages array is empty' for null, undefined
\* and the empty list, 'Message has no content' for a non-empty list with a
\* message of zero parts, and returns for every other list, leaving its
\* argument as it was
C21_ValidateRequest ==
  Validated =>
    /\ util.error =
         IF util.arg.t \in {"null", "undefined"} THEN "Messages array is empty"
         ELSE IF Len(util.arg.items) = 0 THEN "Messages array is empty"
         ELSE IF \E n \in 1..Len(util.arg.items) :
                   Len(util.arg.items[n].content) = 0
         THEN "Message has no content"
         ELSE ""
    /\ [util EXCEPT !.done = FALSE, !.error = ""] \in UtilCalls

\* a list whose second message alone has no part was rejected
C21_Witness ==
  /\ Validated
  /\ util.arg.t = "array"
  /\ Len(util.arg.items) = 2
  /\ util.arg.items[1].content # <<>>
  /\ util.arg.items[2].content = <<>>
  /\ util.error = "Message has no content"

\* the parts of all the messages of a list, in order
AllParts(messages) ==
  Concat([n \in 1..Len(messages) |-> messages[n].content])

\* the least number of tokens of four characters that hold length characters
Ceiling4(length) ==
  CHOOSE t \in 0..length : 4 * t >= length /\ 4 * (t - 1) < length

\* a data part of an image type that has bytes
IsImagePart(part) ==
  /\ part.kind = "data"
  /\ Slice(part.mimeType, 0, 6) = "image/"
  /\ part.data # <<>>

\* the estimate of C22 for the parts of a list
ExpectedEstimate(parts) ==
  Sum([k \in 1..Len(parts) |->
         IF parts[k].kind = "text" THEN Ceiling4(Len(parts[k].value))
         ELSE IF IsImagePart(parts[k]) THEN 1500
         ELSE 0])

\* C22: estimateMessagesTokens returns the sum, over the parts of all the
\* messages, of ceil(length / 4) for a text part and 1500 for an image
\* part, 0 for the empty list; estimateTokens returns ceil(length / 4), 0
\* for the empty string
C22_TokenEstimates ==
  /\ (util.op = "estimateMessagesTokens" /\ util.done) =>
       /\ util.result = ExpectedEstimate(AllParts(util.arg))
       /\ util.arg = <<>> => util.result = 0
  /\ (util.op = "estimateTokens" /\ util.done) =>
       /\ util.result = Ceiling4(Len(util.arg))
       /\ util.arg = "" => util.result = 0

\* two texts of one character in one message, an image in the next: the
\* estimate is one token for each text and 1500 for the image
C22_Witness ==
  /\ util.op = "estimateMessagesTokens"
  /\ util.done
  /\ Len(util.arg) = 2
  /\ util.arg[1].content = <<TextPart("a"), TextPart("a")>>
  /\ \E k \in 1..Len(util.arg[2].content) :
       IsImagePart(util.arg[2].content[k])
  /\ util.result = 1503

(***************************************************************************)
(* Properties of the MCP client.                                           *)
(***************************************************************************)
\* C23: once ensureApiKey has found a non-empty key no read of the secret
\* storage is started again, and an operation that fails with 'Z.ai API
\* key not found' has made no network call
C23_KeyReadOnceAndCached ==
  /\ ~mcp.readAfterFound
  /\ \A s \in DOMAIN mcp.ops :
       mcp.ops[s].error = "Z.ai API key not found" => ~mcp.ops[s].fetched

(***************************************************************************)
(* Properties of the parser of inline tool calls.                          *)
(***************************************************************************)
\* the first fragment of the answer text, "" when the first frame has none
FirstFragment ==
  IF scenario.frames # <<>> /\ scenario.frames[1].k = "content"
  THEN scenario.frames[1].text ELSE ""

\* the fragment after the first end-token
AfterEnd(text) == SliceFrom(text, IndexOf(text, END) + Len(END))

\* C24: when the one fragment received holds visible text, then the
\* begin-token of an inline call that is reported, then text after the
\* end-token, the sink holds the text that precedes the begin-token, then
\* the tool-call event, then the text that follows the end-token
C24_TextBeforeInlineCall ==
  (/\ Quiet
   /\ scenario.family = "inline"
   /\ Len(scenario.frames) = 1
   /\ IndexOf(FirstFragment, BEGIN) > 0
   /\ IndexOf(FirstFragment, END) > 0
   /\ ToolCalls # <<>>)
  => /\ Len(provider.progress) = 3
     /\ provider.progress[1] =
          TextPart(Slice(FirstFragment, 0, IndexOf(FirstFragment, BEGIN)))
     /\ provider.progress[2].kind = "toolCall"
     /\ provider.progress[3] = TextPart(AfterEnd(FirstFragment))

\* the suffix of the first fragment of a request that is to be held back:
\* the longest proper prefix of the begin-token the fragment ends with, or
\* the fragment from a begin-token on whose header no argument-begin token
\* and no end-token terminates
HeldSuffix(text) ==
  With(IndexOf(text, BEGIN), LAMBDA b :
    IF b = -1
    THEN SliceFrom(text, Len(text) - longestPartialPrefix(text))
    ELSE IF IndexOf(SliceFrom(text, b), ARG_BEGIN) = -1
            /\ IndexOf(SliceFrom(text, b), END) = -1
    THEN SliceFrom(text, b)
    ELSE "")

\* the answer text was received as two fragments
TwoFragments ==
  /\ Len(scenario.frames) = 2
  /\ scenario.frames[1].k = "content"
  /\ scenario.frames[2].k = "content"

\* C25: after the first fragment of a request, one that ends with a proper
\* prefix of the begin-token or with a begin-token whose header is not
\* terminated, the carryover buffer is that held-back suffix; and when the
\* next fragment completes the inline call foo {a:1}, the call is reported
C25_CarryoverAcrossFragments ==
  /\ (/\ Quiet
      /\ scenario.family = "inline"
      /\ Len(scenario.frames) = 1
      /\ HeldSuffix(FirstFragment) # "")
     => provider.textToolParserBuffer = HeldSuffix(FirstFragment)
  /\ (/\ Quiet
      /\ scenario.family = "inline"
      /\ TwoFragments
      /\ HeldSuffix(FirstFragment) # ""
      /\ IndexOf(FirstFragment \o scenario.frames[2].text, InlineFoo) # -1)
     => \E n \in 1..Len(ToolCalls) :
          ToolCalls[n].name = "foo" /\ ToolCalls[n].input = FooInput

RECURSIVE ReportedText(_, _)
\* the values of the text events from the n-th on, concatenated
ReportedText(parts, n) ==
  IF n > Len(parts) THEN ""
  ELSE parts[n].value \o ReportedText(parts, n + 1)

\* C26: when the answer text was received as two fragments that together
\* hold no control token and no JSON object (so nothing is to be removed)
\* and do not end with a prefix of the begin-token (so nothing is to be
\* held back), among them a first fragment that ends with a lone '<', the
\* text events reported, concatenated, are the fragments, concatenated
C26_NoTextLost ==
  (/\ Quiet
   /\ scenario.family = "inline"
   /\ TwoFragments
   /\ HeldSuffix(ConcatTexts(scenario.frames, 1)) = ""
   /\ IndexOf(ConcatTexts(scenario.frames, 1), "<|") = -1
   /\ IndexOf(ConcatTexts(scenario.frames, 1), "{") = -1)
  => ReportedText(Texts, 1) = ConcatTexts(scenario.frames, 1)

RECURSIVE Count(_, _)
\* how many times token occurs in text
Count(text, token) ==
  IF IndexOf(text, token) = -1 THEN 0
  ELSE 1 + Count(SliceFrom(text, IndexOf(text, token) + Len(token)), token)

\* the answer text received so far
AnswerText == ConcatTexts(FramesOfKind(scenario.frames, "content"), 1)

\* C27: of the inline calls of a request no more tool-call events are
\* reported than begin-tokens were received, whether a call is reported
\* while its arguments accumulate, at its end-token or by the flush of
\* [DONE]; and when every begin-token is that of foo with stream index 0,
\* at most one event is reported
C27_InlineCallsOnce ==
  scenario.family = "inline"
  => /\ Len(ToolCalls) <= Count(AnswerText, BEGIN)
     /\ Count(AnswerText, BEGIN \o "foo:0") = Count(AnswerText, BEGIN)
        => Len(ToolCalls) <= 1

\* the parser as the frames before the last one leave it
BeforeLast ==
  SingleRead(SubSeq(scenario.frames, 1, Len(scenario.frames) - 1)).st

\* [DONE] is the last frame and has been processed
DoneProcessed ==
  /\ scenario.family = "inline"
  /\ scenario.frames # <<>>
  /\ scenario.frames[Len(scenario.frames)].k = "done"
  /\ wire = <<>>

\* the name an inline call is reported under
ReportedName(call) ==
  IF call.name.t = "undefined" THEN "unknown_tool" ELSE call.name.s

\* a call with these arguments is not yet in the dedup set that
\* emitTextToolCallIfValid consults for it
NotYetReported(st, call, value) ==
  IF call.index # -1
  THEN ReportedName(call) \o ":" \o ToString(call.index)
         \notin st.emittedTextToolCallIds
  ELSE ReportedName(call) \o ":" \o JsonStringify(value)
         \notin st.emittedTextToolCallKeys

\* what [DONE] has done to an inline call that was active in b
DoneOnActive(b, parsed) ==
  IF ~parsed.ok
  THEN /\ provider.progress = b.progress
       /\ provider.textToolActive = b.textToolActive
  ELSE /\ provider.textToolActive = NoActive
       /\ provider.progress =
            IF NotYetReported(b, b.textToolActive, parsed.val)
            THEN Append(b.progress,
                        ToolCallPart("tct_" \o RandomSuffix,
                                     ReportedName(b.textToolActive),
                                     parsed.val))
            ELSE b.progress

\* C28: when [DONE] has been processed while an inline call was active, no
\* error was raised; if the argument buffer of the call parsed and the call
\* was not reported yet, exactly one tool-call event, that of the call, was
\* added to the sink, and the parser is no longer in the active state; if
\* the buffer was empty or did not parse, nothing was added
C28_DoneOnActiveCall ==
  (DoneProcessed /\ BeforeLast.textToolActive.active)
  => /\ pc # "threw"
     /\ caught = <<>>
     /\ Quiet
        => DoneOnActive(BeforeLast,
                        tryParseJSONObject(BeforeLast.textToolActive.argBuffer))

\* [DONE] has reported an inline call that was active
C28_Witness ==
  /\ Quiet
  /\ DoneProcessed
  /\ BeforeLast.textToolActive.active
  /\ Len(provider.progress) = Len(BeforeLast.progress) + 1
  /\ ~provider.textToolActive.active

(***************************************************************************)
(* Properties of the recognition of lines that are JSON objects.           *)
(***************************************************************************)
\* the last fragment of the answer text, when the last frame holds one
LastIsContent ==
  /\ scenario.frames # <<>>
  /\ scenario.frames[Len(scenario.frames)].k = "content"

LastFragment == scenario.frames[Len(scenario.frames)].text

\* the object a line holds: [ok, val], not ok when the line is no JSON
\* object
LineObject(line) ==
  IF StartsWith(Trim(line), "{") /\ EndsWith(Trim(line), "}")
  THEN tryParseJSONObject(Trim(line))
  ELSE ParseFail

\* the name of the call an object describes, "" when it has none
NameOfLine(obj) ==
  IF IsString(Get(obj, "name")) THEN Get(obj, "name").s
  ELSE IF IsString(Get(Get(obj, "function"), "name"))
  THEN Get(Get(obj, "function"), "name").s
  ELSE ""

\* the arguments payload of an object: arguments, or function.arguments
\* when there is none
PayloadOfLine(obj) ==
  IF Get(obj, "arguments").t \in {"undefined", "null"}
  THEN Get(Get(obj, "function"), "arguments")
  ELSE Get(obj, "arguments")

\* the arguments a payload stands for: [ok, val]; a JSON object stands for
\* itself, a string for the JSON it holds
ArgumentsOf(payload) ==
  IF payload.t = "obj" THEN ParseOk(payload, 0)
  ELSE IF payload.t = "str" THEN tryParseJSONObject(payload.s)
  ELSE ParseFail

\* the line is a JSON object with a name and an arguments payload
NamedCallLine(line) ==
  /\ LineObject(line).ok
  /\ NameOfLine(LineObject(line).val) # ""
  /\ ArgumentsOf(PayloadOfLine(LineObject(line).val)).ok

\* the tool-call event for a line that is a named call
EventOfLine(line) ==
  ToolCallPart("jtc_" \o RandomSuffix, NameOfLine(LineObject(line).val),
               ArgumentsOf(PayloadOfLine(LineObject(line).val)).val)

\* C29 as stated: when the last fragment read holds no begin-token, each of
\* its lines that is a JSON object with a name and an arguments payload (an
\* object, or a string holding JSON) has its tool-call event in the sink and
\* is in no text event
C29_JsonLinesConsumed ==
  (/\ Quiet
   /\ scenario.family = "jsonLine"
   /\ LastIsContent
   /\ IndexOf(LastFragment, BEGIN) = -1)
  => \A i \in 1..Len(SplitLines(LastFragment)) :
       With(SplitLines(LastFragment)[i], LAMBDA line :
         NamedCallLine(line)
         => /\ \E n \in 1..Len(ToolCalls) : ToolCalls[n] = EventOfLine(line)
            /\ IndexOf(ReportedText(Texts, 1), Trim(line)) = -1)

\* the input of the call a line is taken for: [ok, val]; a top-level input
\* object, or else the arguments, which must not be a falsy value
InputOfLine(obj) ==
  IF Get(obj, "input").t = "obj" THEN ParseOk(Get(obj, "input"), 0)
  ELSE IF ArgumentsOf(PayloadOfLine(obj)).ok
          /\ Truthy(ArgumentsOf(PayloadOfLine(obj)).val)
  THEN ArgumentsOf(PayloadOfLine(obj))
  ELSE ParseFail

\* the line is taken for a tool call
TakenLine(line) ==
  /\ LineObject(line).ok
  /\ NameOfLine(LineObject(line).val) # ""
  /\ InputOfLine(LineObject(line).val).ok

\* the dedup key of the call of a line
KeyOfLine(line) ==
  NameOfLine(LineObject(line).val) \o ":"
    \o JsonStringify(InputOfLine(LineObject(line).val).val)

RECURSIVE ExpectedOfLines(_, _, _, _, _)
\* the events for the lines from the i-th on: a taken line gives its
\* tool-call event unless its key is among keys, every other line is text;
\* the tool-call events come first, the text is one event
ExpectedOfLines(lines, i, keys, events, text) ==
  IF i > Len(lines)
  THEN events \o (IF text = "" THEN <<>> ELSE <<TextPart(text)>>)
  ELSE IF TakenLine(lines[i])
  THEN ExpectedOfLines(
         lines, i + 1, keys \cup {KeyOfLine(lines[i])},
         IF KeyOfLine(lines[i]) \in keys THEN events
         ELSE Append(events,
                     ToolCallPart("jtc_" \o RandomSuffix,
                                  NameOfLine(LineObject(lines[i]).val),
                                  InputOfLine(LineObject(lines[i]).val).val)),
         text)
  ELSE ExpectedOfLines(
         lines, i + 1, keys, events,
         text \o stripControlTokens(lines[i])
           \o (IF i < Len(lines) THEN "\n" ELSE ""))

\* the last fragment is parsed line by line: no call is active, it holds no
\* begin-token and does not end with a proper prefix of the begin-token
ParsedByLines ==
  /\ Quiet
  /\ scenario.family = "jsonLine"
  /\ LastIsContent
  /\ ~BeforeLast.textToolActive.active
  /\ IndexOf(LastFragment, BEGIN) = -1
  /\ longestPartialPrefix(LastFragment) = 0

\* C29, amended: when the fragment is parsed line by line, a line that is a
\* JSON object with a non-empty name and either a top-level input object or
\* an arguments payload that is not falsy (an object, or a string holding
\* JSON) adds one tool-call event unless a call with the same name and
\* arguments was reported before, and adds no text; the other lines are
\* added as text with the control tokens stripped
C29_JsonLinesWithoutPartialMatch ==
  ParsedByLines
  => provider.progress =
       BeforeLast.progress
         \o ExpectedOfLines(SplitLines(LastFragment), 1,
                            BeforeLast.emittedTextToolCallKeys, <<>>, "")

\* a fragment of three lines, the second a tool call, parsed line by line
\* after the same call was reported
C29_Witness ==
  /\ ParsedByLines
  /\ Len(scenario.frames) = 2
  /\ scenario.frames[1].k = "content"
  /\ scenario.frames[1].text = JsonLineFoo
  /\ Len(SplitLines(LastFragment)) = 3
  /\ TakenLine(SplitLines(LastFragment)[2])
  /\ Len(ToolCalls) = 1
  /\ Len(Texts) = 1

(***************************************************************************)
(* Properties of the buffers of structured tool calls.                     *)
(***************************************************************************)
LastFrame == scenario.frames[Len(scenario.frames)]

\* the last frame, of kind k, has been processed and the read loop goes on
Processed(k) ==
  /\ Quiet
  /\ scenario.family = "names"
  /\ scenario.frames # <<>>
  /\ LastFrame.k = k

\* the buffer of index idx in st, a fresh one when it has none
BufferOf(st, idx) ==
  BufferOrNew(st.toolCallBuffers, idx, BufferPos(st.toolCallBuffers, idx))

\* the name of a buffer after delta f, "" while none was received
NameAfter(old, f) ==
  IF f.name # "" THEN f.name
  ELSE IF old.name.t = "str" THEN old.name.s
  ELSE ""

\* the id a buffer is reported with after delta f
IdAfter(old, f) ==
  IF f.id # "" THEN f.id
  ELSE IF old.id.t = "str" THEN old.id.s
  ELSE "call_" \o RandomSuffix

\* what the delta f has done to a buffer that was old in b and is not
\* completed: reported, deleted and completed when its name is known and
\* its arguments parse, kept without a report otherwise
DeltaOnBuffer(b, old, f, parsed) ==
  IF NameAfter(old, f) # "" /\ parsed.ok
  THEN /\ provider.progress =
            Append(b.progress,
                   ToolCallPart(IdAfter(old, f), NameAfter(old, f),
                                parsed.val))
       /\ BufferPos(provider.toolCallBuffers, f.index) = 0
       /\ f.index \in provider.completedToolCallIndices
  ELSE /\ provider.progress = b.progress
       /\ BufferPos(provider.toolCallBuffers, f.index) # 0
       /\ BufferOf(provider, f.index).args = old.args \o f.args
       /\ f.index \notin provider.completedToolCallIndices

\* the buffers of st without a name whose arguments parse
Nameless(st) ==
  {n \in 1..Len(st.toolCallBuffers) :
     /\ st.toolCallBuffers[n].name.t = "undefined"
     /\ tryParseJSONObject(st.toolCallBuffers[n].args).ok}

UnknownCalls(parts) ==
  SelectSeq(parts, LAMBDA p : p.kind = "toolCall" /\ p.name = "unknown_tool")

\* C30: a delta for an index that is not completed reports the call in the
\* step that processes it, deletes its buffer and completes its index,
\* exactly when the name is known and the accumulated arguments parse after
\* it, before any finish_reason or [DONE]; a call is reported as
\* unknown_tool only when a finish_reason or [DONE] was received, and a
\* finish_reason or [DONE] whose flush has not thrown reports every buffer
\* without a name whose arguments parse as unknown_tool
C30_ReportedAtFirstCompleteDelta ==
  /\ (Processed("tool")
      /\ LastFrame.index \notin BeforeLast.completedToolCallIndices)
     => DeltaOnBuffer(BeforeLast, BufferOf(BeforeLast, LastFrame.index),
                      LastFrame,
                      tryParseJSONObject(
                        BufferOf(BeforeLast, LastFrame.index).args
                          \o LastFrame.args))
  /\ (scenario.family = "names" /\ UnknownCalls(provider.progress) # <<>>)
     => \E n \in 1..Len(scenario.frames) :
          scenario.frames[n].k \in {"finish", "done"}
  /\ ((Processed("finish") \/ Processed("done")) /\ caught = <<>>)
     => Len(UnknownCalls(provider.progress)) =
          Len(UnknownCalls(BeforeLast.progress))
            + Cardinality(Nameless(BeforeLast))

\* the name of a call arrives in the delta after its arguments: the call is
\* reported in the step of that delta, no finish_reason or [DONE] received
C30_Witness ==
  /\ Processed("tool")
  /\ scenario.frames = <<LookupLate, LookupName>>
  /\ provider.progress = <<ToolCallPart("c1", "lookup", LookupInput)>>
  /\ provider.toolCallBuffers = <<>>
  /\ 0 \in provider.completedToolCallIndices

(***************************************************************************)
(* Properties of the accumulation of structured deltas.                    *)
(***************************************************************************)
\* the tool frames of index idx among frames
FramesOfIndex(frames, idx) ==
  SelectSeq(frames, LAMBDA f : f.k = "tool" /\ f.index = idx)

RECURSIVE ConcatNames(_, _)
\* the name fragments of the tool frames from the n-th on, concatenated
ConcatNames(frames, n) ==
  IF n > Len(frames) THEN ""
  ELSE frames[n].name \o ConcatNames(frames, n + 1)

\* the last frame is a structured delta of the family of fragments, it has
\* been processed and the sink has received one more event with it
ReportedByDelta ==
  /\ Quiet
  /\ scenario.family = "fragments"
  /\ scenario.frames # <<>>
  /\ LastFrame.k = "tool"
  /\ Len(provider.progress) = Len(BeforeLast.progress) + 1

\* the call a delta has reported carries the name fragments and the
\* argument fragments of its index, each concatenated in arrival order
OfFragments(part, own) ==
  /\ part.kind = "toolCall"
  /\ part.name = ConcatNames(own, 1)
  /\ part.input = JsonParse(ConcatArgs(own, 1)).val

\* C31: the call reported by a structured delta has for name the
\* concatenation of the name fragments received for its index and for
\* arguments the value parsed from the concatenation of the argument
\* fragments received for its index, whatever deltas of other indices came in
\* between
C31_FragmentsConcatenated ==
  ReportedByDelta
    => OfFragments(provider.progress[Len(provider.progress)],
                   FramesOfIndex(scenario.frames, LastFrame.index))

\* the positions of the whitespace hint among the events of the sink
HintPositions ==
  {n \in 1..Len(provider.progress) : provider.progress[n] = TextPart(" ")}

\* C32: the whitespace hint is reported at most once in a request, answer
\* text has been reported before it, and no tool-call event of a structured
\* delta has been reported before it
C32_HintBeforeStructuredCalls ==
  scenario.family = "fragments"
    => /\ Cardinality(HintPositions) <= 1
       /\ \A n \in HintPositions :
            /\ \E m \in 1..(n - 1) : provider.progress[m].kind = "text"
            /\ \A m \in 1..(n - 1) : provider.progress[m].kind # "toolCall"

\* C33: the arguments of every tool-call event of the sink are a JSON
\* object, never an array, a string, a number, a boolean or null
C33_ArgumentsAreObjects ==
  \A n \in 1..Len(provider.progress) :
    provider.progress[n].kind = "toolCall"
      => provider.progress[n].input.t = "obj"

(***************************************************************************)
(* Properties of the reasoning channel.                                    *)
(***************************************************************************)
\* the reasoning text the server has sent in this request
ReasoningSent == ConcatTexts(FramesOfKind(scenario.frames, "reasoning"), 1)

\* the request has completed normally with reasoning display enabled, after
\* reasoning deltas that all came before the first answer text
CompletedWithReasoning ==
  /\ pc = "returned"
  /\ ~cancelRequested
  /\ thinkingEnabled
  /\ scenario.family \in {"reasoning", "cut"}
  /\ ReasoningSent # ""

\* C34: with reasoning display enabled, a request that completes normally
\* has reported the reasoning text it received inside a formatted block,
\* whether it ended with [DONE] or with the end of the stream
C34_ReasoningShownBeforeReturn ==
  CompletedWithReasoning
    => \E n \in 1..Len(provider.progress) :
         provider.progress[n] =
           TextPart(formatReasoningContent(ReasoningSent, TRUE))

(***************************************************************************)
(* Properties of the request body.                                        *)
(***************************************************************************)
AllowListed ==
  {"max_tokens", "temperature", "stop", "frequency_penalty",
   "presence_penalty"}

\* the keys a request body without tools may have
BodyKeys ==
  {"model", "messages", "stream", "thinking"} \cup AllowListed

\* the value of option k has the type the allow-list asks for
WellTyped(mo, k) ==
  IF k = "stop"
  THEN \/ Get(mo, k).t = "str"
       \/ /\ Get(mo, k).t = "arr"
          /\ \A n \in 1..Len(Get(mo, k).items) : Get(mo, k).items[n].t = "str"
  ELSE Get(mo, k).t = "num"

\* what the options say once the options outside the allow-list and the
\* mistyped values are left out
Effective(mo) ==
  [k \in AllowListed |-> IF WellTyped(mo, k) THEN <<Get(mo, k)>> ELSE <<>>]

BodyBuilt == util.op = "requestBody" /\ util.done

\* body is the body of every request whose options say the same as mine
SameBodies(mine, body) ==
  \A other \in ModelOptions : Effective(other) = mine => BodyOf(other) = body

\* C35: the body of a request is the body of every request whose options
\* differ from its own only outside the allow-list or in mistyped values of
\* allow-listed options; it has no key but those of the body, its model is
\* the model of the request, its stop is the caller's when that is a string
\* or an array of strings, each of its penalties is the caller's when that
\* is a number, and they are absent otherwise
C35_OnlyAllowListedOptions ==
  BodyBuilt
    => /\ SameBodies(Effective(util.arg), util.result)
       /\ \A n \in 1..Len(util.result.keys) : util.result.keys[n] \in BodyKeys
       /\ Get(util.result, "model") = JStr(ZAI_MODELS[1].id)
       /\ \A k \in {"stop", "frequency_penalty", "presence_penalty"} :
            Get(util.result, k) =
              IF WellTyped(util.arg, k) THEN Get(util.arg, k) ELSE JUndefined

\* a body built from options with a mistyped stop, a mistyped penalty and an
\* option outside the allow-list is the body of a request without options
C35_Witness ==
  /\ BodyBuilt
  /\ util.arg = JObj(<<"stop", "frequency_penalty", "seed", "model">>,
                     <<JNum("1"), JStr("1"), JNum("7"), JStr("other")>>)
  /\ util.result = BodyOf(JUndefined)

(***************************************************************************)
(* Properties of the catch block of a request.                             *)
(***************************************************************************)
\* the failures a call that waits as f does can run into, cancellation
\* aside: no API key, a failed captioning call, a validation error; no
\* response body, a failed fetch; the error of the API, a body that cannot
\* be read; a broken stream
Failures(f) ==
  CASE f.pc \in {"apiKey", "captioning"} ->
         {ErrorOf("NoPermissions", "Z.ai API key not found"),
          ErrorOf("Error", "Vision API error: 500 ")}
           \cup {ErrorOf("Error", m) : m \in ValidationErrors}
    [] f.pc = "fetching" ->
         {ErrorOf("Error", "No response body from Z.ai API"),
          ErrorOf("TypeError", "fetch failed")}
    [] f.pc = "errorText" ->
         {toLanguageModelError(f.response.status, f.response.statusText,
                               f.response.text),
          ErrorOf("TypeError", "terminated")}
    [] f.pc = "streaming" ->
         {ErrorOf("TypeError", "terminated"), ErrorOf("Error", InvalidJsonError)}
    [] OTHER -> {}

\* the step in which the catch block of a call takes a failure
FailureCaught == front.pc # "threw" /\ front'.pc = "threw"

\* C36: a call whose token is cancelled when its catch block takes a failure
\* ends with a CancellationError, whatever the failure; a call whose token is
\* not cancelled ends with the failure itself
C36_CancelledFailureIsCancellation ==
  [][FailureCaught =>
       IF cancelRequested THEN front'.error = CancellationError
       ELSE front'.error \in Failures(front)]_vars

\* the API answered 500, the token was cancelled while the call read the
\* text of the error, and the call ended with a CancellationError
C36_Witness ==
  /\ front.pc = "threw"
  /\ cancelRequested
  /\ front.response.status = 500
  /\ front.response.read
  /\ front.error = CancellationError

(***************************************************************************)
(* Properties of the captioning of images for a model without vision.      *)
(***************************************************************************)
\* processImagesForNonVisionModel went through every message of the call
CaptioningDone == front.m > 0 /\ front.m > Len(front.messages)

\* the parts of a message that are no images
NonImageParts(msg) ==
  SelectSeq(msg.content, LAMBDA part : extractImageData(part) = <<>>)

\* the processed message has the role of the message
KeepsRole(msg, processed) == processed.role = msg.role

\* every part of the message that is no image is a part of the processed
\* message
KeepsNonImageParts(msg, processed) ==
  \A n \in 1..Len(NonImageParts(msg)) :
    \E k \in 1..Len(processed.content) :
      processed.content[k] = NonImageParts(msg)[n]

\* the processed message has no image, and what it has besides the parts of
\* the message is caption text
ImagesBecomeCaptions(msg, processed) ==
  /\ ImagesOf(processed) = <<>>
  /\ \A k \in 1..Len(processed.content) :
       \/ \E n \in 1..Len(msg.content) : msg.content[n] = processed.content[k]
       \/ /\ processed.content[k].kind = "text"
          /\ StartsWith(processed.content[k].value, "\n\n[Image Analysis]:\n")

\* C37: once the images of a call are captioned there is one processed
\* message per message, in the order of the messages; a message without
\* images is passed through; a message with images keeps its role and its
\* parts that are no images, and its images are replaced by caption text
C37_CaptioningChangesOnlyImages ==
  CaptioningDone =>
    /\ Len(front.processedMessages) = Len(front.messages)
    /\ \A n \in 1..Len(front.messages) :
         IF ImagesOf(front.messages[n]) = <<>>
         THEN front.processedMessages[n] = front.messages[n]
         ELSE /\ KeepsRole(front.messages[n], front.processedMessages[n])
              /\ KeepsNonImageParts(front.messages[n],
                                    front.processedMessages[n])
              /\ ImagesBecomeCaptions(front.messages[n],
                                      front.processedMessages[n])

(***************************************************************************)
(* Termination of the parse loop and of the read loop.                     *)
(***************************************************************************)
RECURSIVE EveryPassShortens(_, _, _, _)
\* every pass of the while loop of processTextContent from data on leaves
\* less data than it found (a pass that breaks leaves none)
EveryPassShortens(st, data, visibleOut, emittedAny) ==
  IF Len(data) = 0 THEN TRUE
  ELSE With(IF st.textToolActive.active
            THEN ActiveStep(st, data, visibleOut, emittedAny)
            ELSE ScanStep(st, data, visibleOut, emittedAny),
            LAMBDA n :
              /\ Len(n.data) < Len(data)
              /\ EveryPassShortens(n.st, n.data, n.visibleOut, n.emittedAny))

\* the read loop takes a chunk with a content delta
ReadsContent ==
  /\ pc = "reading"
  /\ wire # <<>>
  /\ pc' \in {"reading"} \cup Finished
  /\ wire' = Tail(wire)
  /\ LastFrame.k = "content"

\* the state the finally block of processStreamingResponse leaves, whose
\* first statement releases the reader: no buffers, no carryover, no open
\* inline call, no reasoning held back
Released(st) ==
  /\ st.toolCallBuffers = <<>>
  /\ st.completedToolCallIndices = {}
  /\ st.textToolParserBuffer = ""
  /\ st.textToolActive = NoActive
  /\ st.emittedTextToolCallKeys = {}
  /\ st.emittedTextToolCallIds = {}
  /\ st.reasoningContentBuffer = ""

\* every pass of the parse loop over a fragment read shortens the data left
ParseLoopShortens ==
  [][ReadsContent =>
       EveryPassShortens(provider,
                         provider.textToolParserBuffer \o LastFrame.text,
                         "", FALSE)]_vars

\* a read loop that has seen the cancellation goes on to no further read
CancelEndsReadLoop ==
  [][(pc = "reading" /\ cancelRequested) => pc' \in Finished]_vars

\* the read loop is left through the finally block
LeftThroughFinally ==
  [][(pc = "reading" /\ pc' # "reading")
       => (pc' \in Finished /\ Released(provider'))]_vars

\* a call that reads comes to its end
ReadLoopEnds == (pc = "reading") ~> (pc \in Finished)

\* C38: every pass of the parse loop over a fragment read shortens the data
\* left; a read loop that has seen the cancellation goes on to no further
\* read; the finally block has run whenever the read loop is left; and a
\* call that reads comes to its end
C38_LoopsTerminate ==
  /\ ParseLoopShortens
  /\ CancelEndsReadLoop
  /\ LeftThroughFinally
  /\ ReadLoopEnds

\* a call, cancelled while an inline call was open, that returned with the
\* fields of the parser cleared
C38_Witness ==
  /\ pc = "returned"
  /\ cancelRequested
  /\ Len(scenario.frames) >= 2
  /\ BeforeLast.textToolActive.active
  /\ LastFrame.k = "content"
  /\ Released(provider)

(***************************************************************************)
(* provideTokenCount against the estimates of the request budget.          *)
(***************************************************************************)
\* provideTokenCount has returned
Counted == util.op = "provideTokenCount" /\ util.done

\* C39: the count provideTokenCount gives for a string is estimateTokens of
\* the string, and the count it gives for a message is
\* estimateMessagesTokens of the list of that one message
C39_CountAgreesWithBudget ==
  Counted =>
    util.result = IF util.arg.type = "string"
                  THEN estimateTokens(util.arg.text)
                  ELSE estimateMessagesTokens(<<util.arg.message>>)

\* the count of a message with a text of four characters and an image
C39_Witness ==
  /\ Counted
  /\ util.arg.type = "object"
  /\ ImagesOf(util.arg.message) # <<>>
  /\ util.result = 1 + TokensPerImage

(***************************************************************************)
(* The buffers of the structured calls against the completed indices.      *)
(***************************************************************************)
\* the keys of _toolCallBuffers
BufferKeys(st) ==
  {st.toolCallBuffers[n].idx : n \in 1..Len(st.toolCallBuffers)}

\* no index is a key of the buffers and completed
KeysApartFromCompleted ==
  BufferKeys(provider) \cap provider.completedToolCallIndices = {}

\* while a call reads, a completed index stays completed
CompletedStays ==
  [][(pc = "reading" /\ pc' = "reading")
       => provider.completedToolCallIndices
            \subseteq provider'.completedToolCallIndices]_vars

\* C40: the keys of the tool-call buffers and the completed indices are
\* disjoint in every state, and an index completed in a call stays completed
\* while the call reads, so that it is never a key of the buffers again
C40_BufferedAndCompletedDisjoint ==
  /\ []KeysApartFromCompleted
  /\ CompletedStays

\* a delta for an index that was completed arrived: the index is still
\* completed and no buffer was made for it, while another index is buffered
C40_Witness ==
  /\ Quiet
  /\ Len(scenario.frames) >= 2
  /\ LastFrame.k = "tool"
  /\ LastFrame.index \in BeforeLast.completedToolCallIndices
  /\ LastFrame.index \in provider.completedToolCallIndices
  /\ LastFrame.index \notin BufferKeys(provider)
  /\ BufferKeys(provider) # {}

=============================================================================
